---- MODULE Spec2Model ----
(***************************************************************************)
(* Recipe ingestion queue of jasonbronson/recipes-api.                     *)
(*                                                                         *)
(* The model follows queue_processor.go (scheduler, batch, item worker)    *)
(* and the user-owned copy of the repository in storage.go (lines 1-1396): *)
(* EnqueueRecipe, FetchPendingQueue, MarkQueueItemResult,                  *)
(* LinkRecipeIfExists, SaveRecipeForUser, recipeIsComplete.                *)
(*                                                                         *)
(* Environment: the page renderer, the AI service and the title fetch are  *)
(* nondeterministic; SaveRecipeForUser and LinkRecipeIfExists may fail     *)
(* with a store error; the single-row statements on the queue table        *)
(* (SELECT/INSERT/UPDATE of EnqueueRecipe, FetchPendingQueue and           *)
(* MarkQueueItemResult) are taken to succeed.                              *)
(*                                                                         *)
(* The pure functions (formatAmount, parseIngredientString,                *)
(* recipeIsComplete), the serving scaler of handleGetRecipe and the        *)
(* navigation of getRecipe have specifications of their own, which apply   *)
(* them to inputs drawn in the initial state.                              *)
(***************************************************************************)
EXTENDS Integers, Sequences, FiniteSets, Bags, TLC

VARIABLES
    queue,        \* table queue: row id = index, created_at order = index order
    recipes,      \* table recipes: row id = index, UNIQUE(user_id, slug)
    handlers,     \* handleSaveRecipe requests: position and arguments of each
    sched,        \* position of the runQueueProcessor goroutine
    batch,        \* items of processQueueBatch (snapshots returned by FetchPendingQueue)
    next,         \* index of the next item the range loop of processQueueBatch starts
    slots,        \* number of tokens in the workerSlots channel
    wg,           \* counter of the sync.WaitGroup
    workers,      \* item goroutines: one record per running processQueueItem
    tick,         \* ticker.C: "noticker" before NewTicker, then "empty" or "full" (capacity 1)
    cancelled,    \* ctx.Done() is closed
    enqResult,    \* the last return of EnqueueRecipe: its error, and whether it inserted
    recipeCache,  \* recipeCache (go-cache): entries of single recipes, by key
    recipesCache, \* recipesCache (go-cache): entries of listings, by key
    favorites,    \* table favorites: UNIQUE(user_id, recipe_id)
    reader,       \* a read request (handleGetRecipe, listRecipes) and its position
    writer,       \* a write request (favorite, delete, patch) and its position
    amount,       \* formatAmount: the value it is called with
    text,         \* an amount text or ingredient line: output of formatAmount, input of the parser
    parsed,       \* parseIngredientString: its three results
    candidate,    \* recipeIsComplete: the recipe it is called with
    complete,     \* recipeIsComplete: its result
    mem,          \* heap: backing arrays of slices and float64 cells, by address
    entry,        \* the Recipe value held by recipeCache for the scaled reads
    served,       \* the request and the response of the last scaled read
    nav,          \* getRecipe: position in the page navigation and its fallback
    main,         \* main: position in its return (deferred cancel, deferred Close, exit)
    auth          \* password resets: table password_resets, the user's password, the requests

clientVars == <<favorites, reader, writer>>

cacheVars == <<recipeCache, recipesCache, clientVars>>

fnVars == <<amount, text, parsed, candidate, complete, mem, entry, served, nav, main, auth>>

vars == <<queue, recipes, handlers, sched, batch, next, slots, wg, workers,
          tick, cancelled, enqResult, cacheVars, fnVars>>

(***************************************************************************)
(* Bounds of the model                                                     *)
(***************************************************************************)
MaxItems == 2        \* rows inserted into queue by the requests of Spec
MaxAmount48 == 120   \* amounts of SpecAmount: 1/48 .. MaxAmount48/48
MaxReads == 2        \* reads of the recipe in SpecScale
LiveItems == 1       \* rows inserted into queue by the requests of LiveSpec
MaxHandlers == 2     \* handleSaveRecipe requests the server runs at once
FetchBacklog == 7    \* rows of the queue table when the processor of SpecFetch starts
StoreItems == 2      \* rows inserted into queue by the requests of SpecStore
Backlog == 5         \* pending rows the processor of SpecBatch finds at start

(***************************************************************************)
(* Program constants                                                       *)
(***************************************************************************)
MaxNavAttempts == 2  \* getRecipe: for attempt := 1; attempt <= 2; attempt++
queueBatchSize == 5
queueConcurrency == 4
MaxAttempts == 5
MaxErrorLen == 1024

Users == {"alice", "bob"}
UnknownUsers == {"", "ghost"}
Submitters == {"alice"}
URLs == {"http://a/pea-soup", "http://b/pea_soup"}
BlankURLs == {"", " "}

Min(a, b) == IF a < b THEN a ELSE b

Blank(s) == s \in {"", " "}

(***************************************************************************)
(* Errors: a message is its origin and its length in bytes.                *)
(***************************************************************************)
NULL == [kind |-> "NULL", len |-> 0]
Nil == [kind |-> "nil", len |-> 0]

ErrLen(kind) ==
    CASE kind = "getRecipe" -> 1500    \* wraps the upstream error text
      [] kind = "panic" -> 40
      [] kind = "save" -> 60
      [] kind = "link" -> 30
      [] kind = "username" -> 32
      [] OTHER -> 20

Err(kind) == [kind |-> kind, len |-> ErrLen(kind)]

\* msg := processErr.Error(); if len(msg) > 1024 { msg = msg[:1024] }
Truncate(e) == [e EXCEPT !.len = Min(e.len, MaxErrorLen)]

(***************************************************************************)
(* Recipes                                                                 *)
(***************************************************************************)
\* strings.ToLower(strings.ReplaceAll(title, " ", "-")) on the titles of the model
Slugify(title) ==
    CASE title = "Pea Soup" -> "pea-soup"
      [] title = "Pea Soup - Blog" -> "pea-soup---blog"
      [] title = "pea soup" -> "pea-soup"
      [] title = "Untitled" -> "untitled"
      [] OTHER -> title

\* deriveTitleFromURL: last path segment, "-" and "_" turned into spaces
deriveTitleFromURL(url) ==
    CASE url = "http://a/pea-soup" -> "pea soup"
      [] url = "http://b/pea_soup" -> "pea soup"
      [] url = "http://c/" -> "c"
      [] OTHER -> ""

\* fetchTitleViaHTTP: the page title, or "" when the fetch fails
FetchedTitles(url) == {"", "Pea Soup - Blog"}

\* FallbackTitleAndSlug for a given result of fetchTitleViaHTTP
FallbackTitleAndSlug(url, fetched) ==
    LET t1 == IF Blank(fetched) THEN deriveTitleFromURL(url) ELSE fetched
        t2 == IF Blank(t1) THEN "Untitled" ELSE t1
    IN [title |-> t2, slug |-> Slugify(t2)]

NonBlank(seq) == \E i \in 1..Len(seq) : ~Blank(seq[i])

\* strings.TrimSpace(t) != "" for a text given by its runes
HasText(t) == \E i \in 1..Len(t) : t[i] # " "

\* a structured entry with a description, an amount text or an amount value
\* (a nil AmountValue is [n |-> 0, d |-> 0])
ValidDetail(d) ==
    HasText(d.description) \/ HasText(d.amountText) \/ d.amountValue # [n |-> 0, d |-> 0]

\* Mutant of recipeIsComplete: only the raw ingredient lines count.
recipeIsCompleteRawOnly(r) ==
    /\ ~Blank(r.title)
    /\ Len(r.ingredients) # 0
    /\ Len(r.instructions) # 0
    /\ NonBlank(r.ingredients)
    /\ NonBlank(r.instructions)

recipeIsComplete(r) ==
    /\ ~Blank(r.title)
    /\ ~(Len(r.ingredients) = 0 /\ Len(r.parsedIngredients) = 0)
    /\ Len(r.instructions) # 0
    /\ \/ NonBlank(r.ingredients)
       \/ \E i \in 1..Len(r.parsedIngredients) : ValidDetail(r.parsedIngredients[i])
    /\ NonBlank(r.instructions)

\* A recipe as the extraction returns it in the model: no structured entries.
Recipe(title, image, url, category, ingredients, instructions) ==
    [title |-> title, image |-> image, originalURL |-> url, category |-> category,
     ingredients |-> ingredients, parsedIngredients |-> <<>>,
     instructions |-> instructions]

\* The recipes the AI extraction may return for a page (getRecipe sets OriginalURL).
ExtractedRecipes(url) ==
    { Recipe("Pea Soup", "img", url, "dinner", <<"1 cup peas">>, <<"boil">>),
      Recipe("Pea Soup", "img", url, "dinner", <<"1 cup peas">>, <<" ">>),
      Recipe("", "", url, "", <<>>, <<>>) }

NoRecipe == Recipe("", "", "", "", <<>>, <<>>)

\* What one call of getRecipe may do: return an error, panic (rod's Must* calls),
\* or return an extracted recipe.
GetRecipeOutcomes(url) ==
    {[tag |-> "error", recipe |-> NoRecipe], [tag |-> "panic", recipe |-> NoRecipe]}
    \cup {[tag |-> "ok", recipe |-> r] : r \in ExtractedRecipes(url)}

\* The outcomes SpecStore draws from: getRecipe returns a recipe.
StoreOutcomes(url) == {o \in GetRecipeOutcomes(url) : o.tag = "ok"}

\* The outcomes SpecBatch draws from: a panic or a complete recipe.
BatchOutcomes(url) ==
    {o \in GetRecipeOutcomes(url) :
        o.tag = "panic" \/ (o.tag = "ok" /\ recipeIsComplete(o.recipe))}

(***************************************************************************)
(* Store reads                                                             *)
(***************************************************************************)
QueueIds == 1..Len(queue)

\* Mutant of getUserID: a name without a users row gets an id.
getUserIDAnyName(username) ==
    IF username = "" THEN Err("username") ELSE Nil

\* getUserID: "" is rejected, an unknown name gives sql.ErrNoRows
getUserID(username) ==
    IF username = "" THEN Err("username")
    ELSE IF username \notin Users THEN Err("norows")
    ELSE Nil

\* Mutant of PendingExists: the condition on processed_at is inverted.
PendingExistsProcessed(user, url) ==
    \E i \in QueueIds :
        queue[i].user = user /\ queue[i].url = url /\ queue[i].processed

\* WHERE user_id = ? AND url = ? AND processed_at IS NULL
PendingExists(user, url) ==
    \E i \in QueueIds :
        queue[i].user = user /\ queue[i].url = url /\ ~queue[i].processed

PendingIds == {i \in QueueIds : ~queue[i].processed}

\* WHERE processed_at IS NULL ORDER BY created_at ASC LIMIT limit
RECURSIVE OldestPending(_, _)
OldestPending(from, limit) ==
    IF limit = 0 \/ from > Len(queue) THEN <<>>
    ELSE IF queue[from].processed THEN OldestPending(from + 1, limit)
    ELSE <<[id |-> from, user |-> queue[from].user, url |-> queue[from].url,
            attempts |-> queue[from].attempts]>>
         \o OldestPending(from + 1, limit - 1)

\* Mutant of FetchPendingQueue: the WHERE clause is missing.
FetchOldestRows(limit) ==
    [k \in 1..Min(limit, Len(queue)) |->
        [id |-> k, user |-> queue[k].user, url |-> queue[k].url,
         attempts |-> queue[k].attempts]]

FetchPendingQueue(limit) == OldestPending(1, limit)

\* WHERE user_id = ? AND original_url = ? ... First: the row of lowest id
RecipeRowsByURL(user, url) ==
    {i \in 1..Len(recipes) : recipes[i].user = user /\ recipes[i].recipe.originalURL = url}

MinOf(S) == CHOOSE x \in S : \A y \in S : x <= y

\* LinkRecipeIfExists when the store answers: <<linked, slug, err>>
LinkRecipeIfExists(user, url) ==
    IF Blank(url) THEN [linked |-> FALSE, slug |-> "", err |-> Err("url")]
    ELSE IF getUserID(user) # Nil THEN [linked |-> FALSE, slug |-> "", err |-> getUserID(user)]
    ELSE IF RecipeRowsByURL(user, url) = {} THEN [linked |-> FALSE, slug |-> "", err |-> Nil]
    ELSE LET row == recipes[MinOf(RecipeRowsByURL(user, url))]
         IN IF ~recipeIsComplete(row.recipe)
            THEN [linked |-> FALSE, slug |-> "", err |-> Nil]
            ELSE [linked |-> TRUE, slug |-> row.slug, err |-> Nil]

\* The same call when the store fails ("find recipe: ...")
LinkFailed == [linked |-> FALSE, slug |-> "", err |-> Err("link")]

LinkOutcome(user, url, storeOk) == IF storeOk THEN LinkRecipeIfExists(user, url) ELSE LinkFailed

normalizeCategoryOrOther(c) ==
    IF c \in {"breakfast", "dinner", "baking", "other"} THEN c ELSE "other"

\* WHERE user_id = ? AND slug = ?
RecipeRowOf(user, slug) ==
    {i \in 1..Len(recipes) : recipes[i].user = user /\ recipes[i].slug = slug}

\* Mutant of SaveRecipeForUser: a plain INSERT, no ON CONFLICT clause.
SaveRecipeInsert(user, slug, recipe) ==
    Append(recipes, [user |-> user, slug |-> slug,
                     recipe |-> [recipe EXCEPT !.category = normalizeCategoryOrOther(@)]])

\* INSERT ... ON CONFLICT (user_id, slug) DO UPDATE
SaveRecipeForUser(user, slug, recipe) ==
    LET row == [user |-> user, slug |-> slug,
                recipe |-> [recipe EXCEPT !.category = normalizeCategoryOrOther(@)]]
    IN IF RecipeRowOf(user, slug) = {}
       THEN Append(recipes, row)
       ELSE [recipes EXCEPT ![MinOf(RecipeRowOf(user, slug))] = row]

(***************************************************************************)
(* Caches: recipeCache holds single recipes, recipesCache holds listings   *)
(***************************************************************************)
\* fmt.Sprintf("recipe:%s:%s", username, slug)
singleRecipeCacheKey(username, slug) ==
    [kind |-> "recipe", user |-> username, name |-> slug, id |-> 0]

\* the key of handleGetRecipe's lookup by id
singleRecipeIDCacheKey(username, id) ==
    [kind |-> "recipe-id", user |-> username, name |-> "", id |-> id]

\* fmt.Sprintf("recipes:%s:%s", username, category), "all" for no category
recipeListCacheKey(username, category) ==
    [kind |-> "recipes", user |-> username,
     name |-> IF category = "" THEN "all" ELSE category, id |-> 0]

CacheDelete(c, key) == {e \in c : e.key # key}

CacheSet(c, key, val) == CacheDelete(c, key) \cup {[key |-> key, val |-> val]}

CacheFound(c, key) == \E e \in c : e.key = key

\* deletes every key of recipesCache with the prefix "recipes:<username>:"
invalidateUserRecipeCaches(c, username) == {e \in c : e.key.user # username}

(***************************************************************************)
(* MarkQueueItemResult                                                     *)
(***************************************************************************)
\* Mutant of MarkUpdates: a failure does not count the attempt.
MarkUpdatesNoCount(row, processErr) ==
    IF processErr = Nil
    THEN [row EXCEPT !.attempts = @ + 1, !.processed = TRUE, !.last_error = NULL]
    ELSE [row EXCEPT !.last_error = Truncate(processErr)]

\* Mutant of MarkUpdates: the UPDATE runs twice for one call.
MarkUpdatesTwice(row, processErr) ==
    IF processErr = Nil
    THEN [row EXCEPT !.attempts = @ + 2, !.processed = TRUE, !.last_error = NULL]
    ELSE [row EXCEPT !.attempts = @ + 2, !.last_error = Truncate(processErr)]

\* Mutant of MarkUpdates: success leaves last_error as it was.
MarkUpdatesKeepError(row, processErr) ==
    IF processErr = Nil
    THEN [row EXCEPT !.attempts = @ + 1, !.processed = TRUE]
    ELSE [row EXCEPT !.attempts = @ + 1, !.last_error = Truncate(processErr)]

\* UPDATE queue SET attempts = attempts + 1, [processed_at, last_error] WHERE id = ?
MarkUpdates(row, processErr) ==
    IF processErr = Nil
    THEN [row EXCEPT !.attempts = @ + 1, !.processed = TRUE, !.last_error = NULL]
    ELSE [row EXCEPT !.attempts = @ + 1, !.last_error = Truncate(processErr)]

\* Mutants of AtCeiling: the ceiling tested with > instead of >=; a ceiling of 3.
AtCeilingOffByOne(row) == row.attempts > MaxAttempts /\ ~row.processed

AtCeilingEarly(row) == row.attempts >= 3 /\ ~row.processed

\* if item.Attempts >= 5 && item.ProcessedAt == nil
AtCeiling(row) == row.attempts >= MaxAttempts /\ ~row.processed

\* Mutant of Finalize: no failure finalizes the item.
FinalizeNever(row) == row

\* Mutant of Finalize: every failure finalizes the item.
FinalizeAlways(row) == [row EXCEPT !.processed = TRUE]

\* UPDATE queue SET processed_at = CURRENT_TIMESTAMP WHERE id = ? (when at the ceiling)
Finalize(row) == IF AtCeiling(row) THEN [row EXCEPT !.processed = TRUE] ELSE row

\* No call of the amount functions, of recipeIsComplete, of the scaler or of
\* getRecipe's navigation is in progress.
Idle == [pc |-> "idle"]

InitFn ==
    /\ amount = Idle
    /\ text = Idle
    /\ parsed = Idle
    /\ candidate = Idle
    /\ complete = Idle
    /\ mem = Idle
    /\ entry = Idle
    /\ served = Idle
    /\ nav = Idle
    /\ main = Idle
    /\ auth = Idle

(***************************************************************************)
(* Initial state: empty tables, runQueueProcessor just started.            *)
(***************************************************************************)
Returned(err, inserted) == [err |-> err, inserted |-> inserted]

IdleHandler == [pc |-> "idle", user |-> "", url |-> ""]

\* A reader at "set" holds the key and the value of the Set call it is about to
\* make; a value is the sequence of recipes the store returned.
IdleReader == [pc |-> "idle", key |-> recipeListCacheKey("", ""), val |-> <<>>]

IdleWriter == [pc |-> "idle", user |-> "", slug |-> "", id |-> 0, bySlug |-> FALSE]

NoSave == [slug |-> "", recipe |-> NoRecipe, onFail |-> Nil]

Init ==
    /\ queue = <<>>
    /\ recipes = <<>>
    /\ handlers = [h \in 1..MaxHandlers |-> IdleHandler]
    /\ sched = "batch"
    /\ batch = <<>>
    /\ next = 1
    /\ slots = 0
    /\ wg = 0
    /\ workers = {}
    /\ tick = "noticker"
    /\ cancelled = FALSE
    /\ enqResult = Returned("none", FALSE)
    /\ recipeCache = {}
    /\ recipesCache = {}
    /\ favorites = {}
    /\ reader = IdleReader
    /\ writer = IdleWriter
    /\ InitFn

(***************************************************************************)
(* handleSaveRecipe -> EnqueueRecipe                                       *)
(***************************************************************************)
Inserting == {h \in 1..MaxHandlers : handlers[h].pc = "insert"}

\* handleSaveRecipe up to its EnqueueRecipe call: LinkRecipeIfExists decides.
\* Requests are made while a row may still be inserted, or for a pending pair.
handleSaveRecipe(h, user, url, maxItems) ==
    /\ handlers[h].pc = "idle"
    /\ Len(queue) + Cardinality(Inserting) < maxItems \/ PendingExists(user, url)
    /\ \E storeOk \in BOOLEAN :
         LET r == LinkOutcome(user, url, storeOk)
         IN /\ handlers' = IF r.err = Nil /\ ~r.linked
                           THEN [handlers EXCEPT ![h] =
                                   [pc |-> "enqueue", user |-> user, url |-> url]]
                           ELSE handlers
            /\ recipeCache' = IF r.err = Nil /\ r.linked
                              THEN CacheDelete(recipeCache, singleRecipeCacheKey(user, r.slug))
                              ELSE recipeCache
            /\ recipesCache' = IF r.err = Nil /\ r.linked
                               THEN invalidateUserRecipeCaches(recipesCache, user)
                               ELSE recipesCache
    /\ UNCHANGED <<queue, recipes, sched, batch, next, slots, wg, workers, tick,
                   cancelled, enqResult, clientVars, fnVars>>

\* A call EnqueueRecipe(user, url), whatever its arguments.
EnqueueRecipe(h, user, url) ==
    /\ handlers[h].pc = "idle"
    /\ handlers' = [handlers EXCEPT ![h] = [pc |-> "enqueue", user |-> user, url |-> url]]
    /\ UNCHANGED <<queue, recipes, sched, batch, next, slots, wg, workers, tick,
                   cancelled, enqResult, cacheVars, fnVars>>

\* EnqueueRecipe up to its INSERT: "error", "pending" (return nil) or "insert"
EnqueueCheck(user, url) ==
    IF Blank(url) THEN "error"
    ELSE IF getUserID(user) # Nil THEN "error"
    ELSE IF PendingExists(user, url) THEN "pending"
    ELSE "insert"

\* No request that would insert a row beyond maxItems is made.
EnqueueRecipeCheck(h, maxItems) ==
    /\ handlers[h].pc = "enqueue"
    /\ LET c == EnqueueCheck(handlers[h].user, handlers[h].url)
       IN /\ c = "insert" => Len(queue) + Cardinality(Inserting) < maxItems
          /\ handlers' = [handlers EXCEPT ![h] =
                            IF c = "insert" THEN [@ EXCEPT !.pc = "insert"] ELSE IdleHandler]
          /\ enqResult' = CASE c = "error" -> Returned("error", FALSE)
                            [] c = "pending" -> Returned("nil", FALSE)
                            [] OTHER -> enqResult
    /\ UNCHANGED <<queue, recipes, sched, batch, next, slots, wg, workers, tick, cancelled,
                   cacheVars, fnVars>>

NewQueueRow(user, url) ==
    [user |-> user, url |-> url, attempts |-> 0, last_error |-> NULL, processed |-> FALSE]

\* r.db.Create(&item); return nil
EnqueueRecipeInsert(h) ==
    /\ handlers[h].pc = "insert"
    /\ queue' = Append(queue, NewQueueRow(handlers[h].user, handlers[h].url))
    /\ handlers' = [handlers EXCEPT ![h] = IdleHandler]
    /\ enqResult' = Returned("nil", TRUE)
    /\ UNCHANGED <<recipes, sched, batch, next, slots, wg, workers, tick, cancelled, cacheVars, fnVars>>

(***************************************************************************)
(* runQueueProcessor, safeProcessQueueBatch, processQueueBatch             *)
(***************************************************************************)
NewWorker(item) ==
    [id |-> item.id, user |-> item.user, url |-> item.url, pc |-> "start",
     err |-> Nil, save |-> NoSave, line |-> 0]

\* items, err := repo.FetchPendingQueue(queueBatchSize); if len(items) == 0 { return }
processQueueBatch ==
    /\ sched = "batch"
    /\ LET items == FetchPendingQueue(queueBatchSize)
       IN IF Len(items) = 0
          THEN /\ sched' = "select"
               /\ UNCHANGED <<batch, next>>
          ELSE /\ sched' = "dispatch"
               /\ batch' = items
               /\ next' = 1
    /\ tick' = IF sched' = "select" /\ tick = "noticker" THEN "empty" ELSE tick
    /\ UNCHANGED <<queue, recipes, handlers, slots, wg, workers, cancelled, enqResult,
                   cacheVars, fnVars>>

\* Mutant of SlotFree: the send on workerSlots never blocks.
SlotFreeAlways == TRUE

\* workerSlots <- struct{}{} blocks while the channel holds queueConcurrency tokens
SlotFree == slots < queueConcurrency

\* workerSlots <- struct{}{}; wg.Add(1); go func(itm) {...}(item)
StartItem ==
    /\ sched = "dispatch"
    /\ next <= Len(batch)
    /\ SlotFree
    /\ slots' = slots + 1
    /\ wg' = wg + 1
    /\ workers' = workers \cup {NewWorker(batch[next])}
    /\ next' = next + 1
    /\ UNCHANGED <<queue, recipes, handlers, sched, batch, tick, cancelled, enqResult,
                   cacheVars, fnVars>>

\* Mutant of WaitDone: processQueueBatch returns without waiting.
WaitDoneAlways == TRUE

\* wg.Wait() returns when the counter is zero
WaitDone == wg = 0

BatchWait ==
    /\ sched = "dispatch"
    /\ next > Len(batch)
    /\ WaitDone
    /\ sched' = "select"
    /\ batch' = <<>>
    /\ next' = 1
    /\ tick' = IF tick = "noticker" THEN "empty" ELSE tick
    /\ UNCHANGED <<queue, recipes, handlers, slots, wg, workers, cancelled, enqResult,
                   cacheVars, fnVars>>

\* case <-ticker.C: safeProcessQueueBatch(repo)
SelectTick ==
    /\ sched = "select"
    /\ tick = "full"
    /\ tick' = "empty"
    /\ sched' = "batch"
    /\ UNCHANGED <<queue, recipes, handlers, batch, next, slots, wg, workers, cancelled,
                   enqResult, cacheVars, fnVars>>

\* Mutant of SelectDone: the cancellation is also observed while a batch runs.
SelectDoneAnywhere ==
    /\ sched \in {"select", "dispatch"}
    /\ cancelled
    /\ sched' = "stopped"
    /\ tick' = "noticker"
    /\ UNCHANGED <<queue, recipes, handlers, batch, next, slots, wg, workers, cancelled,
                   enqResult, cacheVars, fnVars>>

\* case <-ctx.Done(): return (defer ticker.Stop())
SelectDone ==
    /\ sched = "select"
    /\ cancelled
    /\ sched' = "stopped"
    /\ tick' = "noticker"
    /\ UNCHANGED <<queue, recipes, handlers, batch, next, slots, wg, workers, cancelled,
                   enqResult, cacheVars, fnVars>>

\* The ticker fires; a tick that finds the channel full is dropped.
Tick ==
    /\ tick = "empty"
    /\ tick' = "full"
    /\ UNCHANGED <<queue, recipes, handlers, sched, batch, next, slots, wg, workers,
                   cancelled, enqResult, cacheVars, fnVars>>

\* main returns: defer cancel()
Cancel ==
    /\ ~cancelled
    /\ cancelled' = TRUE
    /\ UNCHANGED <<queue, recipes, handlers, sched, batch, next, slots, wg, workers, tick,
                   enqResult, cacheVars, fnVars>>

(***************************************************************************)
(* processQueueItem: one goroutine per item of the batch                   *)
(***************************************************************************)
\* A goroutine at "mark" is about to call MarkQueueItemResult(item.ID, err) at
\* `line` of queue_processor.go; at "save" it is about to call SaveRecipeForUser
\* at `line`; at "invalidate" it has linked (line 100) or saved (the line of the
\* save) and is about to delete the cache entries of save.slug.
Mark(w, err, line) == [w EXCEPT !.pc = "mark", !.err = err, !.save = NoSave, !.line = line]

Save(w, slug, recipe, onFail, line) ==
    [w EXCEPT !.pc = "save", !.line = line,
              !.save = [slug |-> slug, recipe |-> recipe, onFail |-> onFail]]

Replace(w, w2) == (workers \ {w}) \cup {w2}

\* Mutant of AfterLink: LinkRecipeIfExists is called before the username test.
AfterLinkFirst(w, r) ==
    IF r.err # Nil THEN Mark(w, r.err, 95)
    ELSE IF w.user = "" THEN Mark(w, Err("username"), 86)
    ELSE [w EXCEPT !.pc = "getRecipe"]

\* username == "" -> failure; else LinkRecipeIfExists decides (lines 82-106)
AfterLink(w, r) ==
    IF w.user = "" THEN Mark(w, Err("username"), 86)
    ELSE IF r.err # Nil THEN Mark(w, r.err, 95)
    ELSE IF r.linked
         THEN [w EXCEPT !.pc = "invalidate", !.line = 100,
                        !.save = [NoSave EXCEPT !.slug = r.slug]]
    ELSE [w EXCEPT !.pc = "getRecipe"]

ItemStart(w, storeOks) ==
    /\ w.pc = "start"
    /\ \E storeOk \in storeOks :
         workers' = Replace(w, AfterLink(w, LinkOutcome(w.user, w.url, storeOk)))
    /\ UNCHANGED <<queue, recipes, handlers, sched, batch, next, slots, wg, tick, cancelled,
                   enqResult, cacheVars, fnVars>>

Placeholder(title, image, url, category) == Recipe(title, image, url, category, <<>>, <<>>)

\* Mutant of OnGetRecipeError: the failure is recorded and no placeholder saved.
OnGetRecipeErrorNoPlaceholder(w, fetched) == Mark(w, Err("getRecipe"), 111)

\* getRecipe returned an error: fallback placeholder (lines 109-134); when the
\* save fails the item is marked with err, the error of getRecipe (line 122)
OnGetRecipeError(w, fetched) ==
    LET fb == FallbackTitleAndSlug(w.url, fetched)
    IN Save(w, fb.slug, Placeholder(fb.title, "", w.url, ""), Err("getRecipe"), 120)

\* Mutant of OnGetRecipeOk: the extracted recipe is saved whatever it holds.
OnGetRecipeOkSaveAll(w, recipe, fetched) ==
    Save(w, Slugify(recipe.title), recipe, Err("save"), 172)

\* getRecipe returned a recipe (lines 135-178)
OnGetRecipeOk(w, recipe, fetched) ==
    LET slug == Slugify(recipe.title)
        fb == FallbackTitleAndSlug(w.url, fetched)
        minimalSlug == IF slug = "" THEN fb.slug ELSE slug
        minimalTitle == IF recipe.title = "" THEN fb.title ELSE recipe.title
    IN IF ~recipeIsComplete(recipe)
       THEN Save(w, minimalSlug,
                 Placeholder(minimalTitle, recipe.image, w.url, recipe.category),
                 Err("save"), 157)
       ELSE Save(w, slug, recipe, Err("save"), 172)

\* Mutant of OnPanic: the panic is recovered and the result is not recorded.
OnPanicNoMark(w) == [w EXCEPT !.pc = "done", !.err = Err("panic"), !.save = NoSave, !.line = 76]

\* defer func() { if r := recover(); r != nil { MarkQueueItemResult(item.ID, err) } }()
OnPanic(w) == Mark(w, Err("panic"), 76)

AfterGetRecipe(w, o, fetched) ==
    CASE o.tag = "error" -> OnGetRecipeError(w, fetched)
      [] o.tag = "panic" -> OnPanic(w)
      [] OTHER -> OnGetRecipeOk(w, o.recipe, fetched)

ItemGetRecipe(w, outcomes) ==
    /\ w.pc = "getRecipe"
    /\ \E o \in outcomes, fetched \in FetchedTitles(w.url) :
         workers' = Replace(w, AfterGetRecipe(w, o, fetched))
    /\ UNCHANGED <<queue, recipes, handlers, sched, batch, next, slots, wg, tick, cancelled,
                   enqResult, cacheVars, fnVars>>

\* The MarkQueueItemResult call that follows the SaveRecipeForUser call at `line`
MarkLine(line, saved) ==
    CASE line = 100 -> 102
      [] line = 120 -> IF saved THEN 130 ELSE 122
      [] line = 157 -> IF saved THEN 166 ELSE 159
      [] OTHER -> IF saved THEN 183 ELSE 174

\* SaveRecipeForUser: the upsert commits, or the store fails and nothing is written
ItemSave(w, storeOks) ==
    /\ w.pc = "save"
    /\ \E storeOk \in storeOks :
         IF storeOk
         THEN /\ recipes' = SaveRecipeForUser(w.user, w.save.slug, w.save.recipe)
              /\ workers' = Replace(w, [w EXCEPT !.pc = "invalidate"])
         ELSE /\ workers' = Replace(w, Mark(w, w.save.onFail, MarkLine(w.line, FALSE)))
              /\ UNCHANGED recipes
    /\ UNCHANGED <<queue, handlers, sched, batch, next, slots, wg, tick, cancelled, enqResult,
                   cacheVars, fnVars>>

\* recipeCache.Delete(singleRecipeCacheKey(username, slug));
\* invalidateUserRecipeCaches(username); then MarkQueueItemResult(item.ID, nil)
ItemInvalidate(w) ==
    /\ w.pc = "invalidate"
    /\ recipeCache' = CacheDelete(recipeCache, singleRecipeCacheKey(w.user, w.save.slug))
    /\ recipesCache' = invalidateUserRecipeCaches(recipesCache, w.user)
    /\ workers' = Replace(w, Mark(w, Nil, MarkLine(w.line, TRUE)))
    /\ UNCHANGED <<queue, recipes, handlers, sched, batch, next, slots, wg, tick, cancelled,
                   enqResult, clientVars, fnVars>>

\* MarkQueueItemResult, the UPDATE of lines 780-798
ItemMark(w) ==
    /\ w.pc = "mark"
    /\ queue' = [queue EXCEPT ![w.id] = MarkUpdates(@, w.err)]
    /\ workers' = Replace(w, [w EXCEPT !.pc = IF w.err = Nil THEN "done" ELSE "finalize"])
    /\ UNCHANGED <<recipes, handlers, sched, batch, next, slots, wg, tick, cancelled, enqResult,
                   cacheVars, fnVars>>

\* MarkQueueItemResult, the reload and forced finalization of lines 800-811
ItemFinalize(w) ==
    /\ w.pc = "finalize"
    /\ queue' = [queue EXCEPT ![w.id] = Finalize(@)]
    /\ workers' = Replace(w, [w EXCEPT !.pc = "done"])
    /\ UNCHANGED <<recipes, handlers, sched, batch, next, slots, wg, tick, cancelled, enqResult,
                   cacheVars, fnVars>>

\* defer func() { <-workerSlots; wg.Done() }()
ItemReturn(w) ==
    /\ w.pc = "done"
    /\ slots' = slots - 1
    /\ wg' = wg - 1
    /\ workers' = workers \ {w}
    /\ UNCHANGED <<queue, recipes, handlers, sched, batch, next, tick, cancelled, enqResult,
                   cacheVars, fnVars>>

(***************************************************************************)
(* Reads: handleGetRecipe (by slug, by id) and listRecipes                 *)
(***************************************************************************)
\* isFavorite: WHERE user_id = ? AND recipe_id = ?
isFavorite(user, id) == [user |-> user, id |-> id] \in favorites

\* model.toRecipe() with recipe.IsFavorite set
toRecipe(i) ==
    [id |-> i, slug |-> recipes[i].slug, recipe |-> recipes[i].recipe,
     favorite |-> isFavorite(recipes[i].user, i)]

\* GetRecipe: WHERE user_id = ? AND slug = ?; <<>> stands for sql.ErrNoRows
GetRecipe(user, slug) ==
    IF RecipeRowOf(user, slug) = {} THEN <<>>
    ELSE <<toRecipe(MinOf(RecipeRowOf(user, slug)))>>

\* GetRecipeByID: WHERE id = ? AND user_id = ?
GetRecipeByID(user, id) ==
    IF id \in 1..Len(recipes) /\ recipes[id].user = user THEN <<toRecipe(id)>> ELSE <<>>

\* ListRecipes: WHERE user_id = ? ORDER BY created_at DESC
RECURSIVE ListFrom(_, _)
ListFrom(user, i) ==
    IF i = 0 THEN <<>>
    ELSE (IF recipes[i].user = user THEN <<toRecipe(i)>> ELSE <<>>) \o ListFrom(user, i - 1)

ListRecipes(user) == ListFrom(user, Len(recipes))

\* A read up to its Set call: a cache hit answers from the cache; a miss reads
\* the store, and what the store returned (`loaded`) is then to be cached.
ReadThrough(cache, key, loaded, found) ==
    /\ reader.pc = "idle"
    /\ reader' = IF ~CacheFound(cache, key) /\ found
                  THEN [pc |-> "set", key |-> key, val |-> loaded]
                  ELSE reader
    /\ UNCHANGED <<queue, recipes, handlers, sched, batch, next, slots, wg, workers, tick,
                   cancelled, enqResult, recipeCache, recipesCache, favorites, writer, fnVars>>

\* handleGetRecipe by slug, lines 689-712
handleGetRecipe(user, slug) ==
    ReadThrough(recipeCache, singleRecipeCacheKey(user, slug),
                GetRecipe(user, slug), GetRecipe(user, slug) # <<>>)

\* handleGetRecipe by id, lines 649-672
handleGetRecipeByID(user, id) ==
    ReadThrough(recipeCache, singleRecipeIDCacheKey(user, id),
                GetRecipeByID(user, id), GetRecipeByID(user, id) # <<>>)

\* listRecipes, cache_helpers.go lines 35-48
listRecipes(user, category) ==
    ReadThrough(recipesCache, recipeListCacheKey(user, category), ListRecipes(user), TRUE)

\* recipeCache.Set(cacheKey, recipe, ...) / recipesCache.Set(cacheKey, recipes, ...)
ReadSet ==
    /\ reader.pc = "set"
    /\ recipeCache' = IF reader.key.kind = "recipes" THEN recipeCache
                       ELSE CacheSet(recipeCache, reader.key, reader.val)
    /\ recipesCache' = IF reader.key.kind = "recipes"
                        THEN CacheSet(recipesCache, reader.key, reader.val)
                        ELSE recipesCache
    /\ reader' = IdleReader
    /\ UNCHANGED <<queue, recipes, handlers, sched, batch, next, slots, wg, workers, tick,
                   cancelled, enqResult, favorites, writer, fnVars>>

(***************************************************************************)
(* Writes: favorite, unfavorite, delete and patch, by slug and by id       *)
(***************************************************************************)
\* getRecipeIDBySlug: WHERE slug = ? ... First; 0 stands for sql.ErrNoRows
getRecipeIDBySlug(slug) ==
    LET rows == {i \in 1..Len(recipes) : recipes[i].slug = slug}
    IN IF Blank(slug) \/ rows = {} THEN 0 ELSE MinOf(rows)

Owns(user, id) == id \in 1..Len(recipes) /\ recipes[id].user = user

\* INSERT ... ON CONFLICT DO NOTHING / DELETE on the favorites table
SetFavoriteRow(user, id, favorite) ==
    IF favorite THEN favorites \cup {[user |-> user, id |-> id]}
    ELSE favorites \ {[user |-> user, id |-> id]}

\* A deleted row: the id is not used again (AUTOINCREMENT) and no lookup finds it.
Tombstone == [user |-> "", slug |-> "", recipe |-> NoRecipe]

\* The store part of a write handler succeeded: the cache deletions follow.
Written(user, slug, id, bySlug) ==
    /\ writer.pc = "idle"
    /\ writer' = [pc |-> "invalidate", user |-> user, slug |-> slug, id |-> id,
                  bySlug |-> bySlug]
    /\ UNCHANGED <<queue, handlers, sched, batch, next, slots, wg, workers, tick,
                   cancelled, enqResult, recipeCache, recipesCache, reader, fnVars>>

\* handleFavoriteRecipe / handleUnfavoriteRecipe by slug: SetFavorite
handleFavoriteRecipe(user, slug, favorite) ==
    /\ getRecipeIDBySlug(slug) # 0
    /\ favorites' = SetFavoriteRow(user, getRecipeIDBySlug(slug), favorite)
    /\ UNCHANGED recipes
    /\ Written(user, slug, getRecipeIDBySlug(slug), TRUE)

\* handleFavoriteRecipe / handleUnfavoriteRecipe by id: SetFavoriteByID
handleFavoriteRecipeByID(user, id, favorite) ==
    /\ Owns(user, id)
    /\ favorites' = SetFavoriteRow(user, id, favorite)
    /\ UNCHANGED recipes
    /\ Written(user, recipes[id].slug, id, FALSE)

\* DeleteRecipe / DeleteRecipeByID: the favorites of the row, then the row
DeleteRow(user, id) ==
    /\ favorites' = favorites \ {[user |-> user, id |-> id]}
    /\ recipes' = [recipes EXCEPT ![id] = Tombstone]

\* handleDeleteRecipe by slug; a slug that is not found is a success too
handleDeleteRecipe(user, slug) ==
    /\ IF RecipeRowOf(user, slug) = {}
       THEN UNCHANGED <<recipes, favorites>>
       ELSE DeleteRow(user, MinOf(RecipeRowOf(user, slug)))
    /\ Written(user, slug,
               IF RecipeRowOf(user, slug) = {} THEN 0 ELSE MinOf(RecipeRowOf(user, slug)),
               TRUE)

\* handleDeleteRecipe by id; an id that is not found is a success too
handleDeleteRecipeByID(user, id) ==
    /\ IF Owns(user, id) THEN DeleteRow(user, id) ELSE UNCHANGED <<recipes, favorites>>
    /\ Written(user, IF Owns(user, id) THEN recipes[id].slug ELSE "", id, FALSE)

\* UPDATE recipes SET title = ? WHERE id = ?
PatchRow(id, title) ==
    /\ recipes' = [recipes EXCEPT ![id].recipe.title = title]
    /\ UNCHANGED favorites

\* handlePatchRecipe by slug: UpdateRecipeTitleAndInstructions
handlePatchRecipe(user, slug, title) ==
    /\ RecipeRowOf(user, slug) # {}
    /\ PatchRow(MinOf(RecipeRowOf(user, slug)), title)
    /\ Written(user, slug, MinOf(RecipeRowOf(user, slug)), TRUE)

\* handlePatchRecipe by id: UpdateRecipeTitleAndInstructionsByID
handlePatchRecipeByID(user, id, title) ==
    /\ Owns(user, id)
    /\ PatchRow(id, title)
    /\ Written(user, recipes[id].slug, id, FALSE)

\* by slug: recipeCache.Delete(singleRecipeCacheKey(username, slug));
\* by slug and by id: invalidateUserRecipeCaches(username)
WriteInvalidate ==
    /\ writer.pc = "invalidate"
    /\ recipeCache' = IF writer.bySlug
                       THEN CacheDelete(recipeCache,
                                        singleRecipeCacheKey(writer.user, writer.slug))
                       ELSE recipeCache
    /\ recipesCache' = invalidateUserRecipeCaches(recipesCache, writer.user)
    /\ writer' = IdleWriter
    /\ UNCHANGED <<queue, recipes, handlers, sched, batch, next, slots, wg, workers, tick,
                   cancelled, enqResult, favorites, reader, fnVars>>

(***************************************************************************)
(* Numbers and texts. A float64 is the rational it stands for, [n, d] in   *)
(* lowest terms with d > 0; a string is the sequence of its runes.         *)
(***************************************************************************)
Absent == [n |-> 0, d |-> 0]     \* a nil *float64

RECURSIVE GCD(_, _)
GCD(a, b) == IF b = 0 THEN a ELSE GCD(b, a % b)

AbsInt(x) == IF x < 0 THEN 0 - x ELSE x

Rat(n, d) ==
    LET g == GCD(AbsInt(n), d)
    IN [n |-> n \div g, d |-> d \div g]

RAdd(a, b) == Rat(a.n * b.d + b.n * a.d, a.d * b.d)

RSub(a, b) == Rat(a.n * b.d - b.n * a.d, a.d * b.d)

RMul(a, b) == Rat(a.n * b.n, a.d * b.d)

RDiv(a, b) == Rat(a.n * b.d, a.d * b.n)

RLess(a, b) == a.n * b.d < b.n * a.d

RAbs(a) == [n |-> AbsInt(a.n), d |-> a.d]

FromInt(k) == [n |-> k, d |-> 1]

\* math.Floor and math.Round (half away from zero) of a value that is not negative
Floor(a) == a.n \div a.d

Round(a) == (2 * a.n + a.d) \div (2 * a.d)

\* the 1e-6 of formatAmount
Epsilon == Rat(1, 1000000)

Digit == <<"0", "1", "2", "3", "4", "5", "6", "7", "8", "9">>

Digits == {Digit[i] : i \in 1..10}

DigitValue(c) == (CHOOSE i \in 1..10 : Digit[i] = c) - 1

\* the decimal digits of an integer that is not negative (%d, FormatFloat 'f' 0)
RECURSIVE Itoa(_)
Itoa(k) == IF k < 10 THEN <<Digit[k + 1]>> ELSE Itoa(k \div 10) \o <<Digit[(k % 10) + 1]>>

\* the value of a run of digits
RECURSIVE Atoi(_)
Atoi(t) ==
    IF Len(t) = 0 THEN 0
    ELSE 10 * Atoi(SubSeq(t, 1, Len(t) - 1)) + DigitValue(t[Len(t)])

AllDigits(t) == Len(t) > 0 /\ \A i \in 1..Len(t) : t[i] \in Digits

RECURSIVE Pow10(_)
Pow10(k) == IF k = 0 THEN 1 ELSE 10 * Pow10(k - 1)

\* strconv.FormatFloat(value, 'f', 2, 64): two decimals, the nearest hundredth
\* (a tie goes to the even hundredth)
FormatFloat2(value) ==
    LET scaled == RMul(value, FromInt(100))
        low == Floor(scaled)
        rest == RSub(scaled, FromInt(low))
        half == Rat(1, 2)
        h == IF RLess(rest, half) THEN low
             ELSE IF RLess(half, rest) THEN low + 1
             ELSE IF low % 2 = 0 THEN low ELSE low + 1
    IN Itoa(h \div 100) \o <<".", Digit[((h \div 10) % 10) + 1], Digit[(h % 10) + 1]>>

denominators == <<2, 3, 4, 8, 16>>

\* the loop of formatAmount over denominators[i..]: best is <<bestNum, bestDen,
\* minDiff>>, and minDiff = Absent stands for math.MaxFloat64
RECURSIVE BestFraction(_, _, _)
BestFraction(frac, i, best) ==
    IF i > Len(denominators) THEN best
    ELSE LET den == denominators[i]
             num == Round(RMul(frac, FromInt(den)))
             diff == RAbs(RSub(frac, Rat(num, den)))
         IN BestFraction(frac, i + 1,
                IF best.minDiff = Absent \/ RLess(diff, best.minDiff)
                THEN [num |-> num, den |-> den, minDiff |-> diff]
                ELSE best)

formatAmount(value) ==
    IF value.n <= 0 THEN <<>>
    ELSE LET whole == Floor(value)
             frac == RSub(value, FromInt(whole))
             best == BestFraction(frac, 1, [num |-> 0, den |-> 1, minDiff |-> Absent])
             g == GCD(best.num, best.den)
             bestNum == best.num \div g
             bestDen == best.den \div g
         IN IF RLess(frac, Epsilon) THEN Itoa(whole)
            ELSE IF best.num = 0 THEN FormatFloat2(value)
            ELSE IF whole = 0 THEN Itoa(bestNum) \o <<"/">> \o Itoa(bestDen)
            ELSE Itoa(whole) \o <<" ">> \o Itoa(bestNum) \o <<"/">> \o Itoa(bestDen)

(***************************************************************************)
(* parseIngredientString and its helpers (storage.go lines 2468-2680, the  *)
(* copy of the file in which the helpers have bodies)                      *)
(***************************************************************************)
\* strings.TrimSpace, strings.Trim(t, cutset)
RECURSIVE TrimLeft(_, _)
TrimLeft(t, cutset) ==
    IF Len(t) > 0 /\ t[1] \in cutset THEN TrimLeft(Tail(t), cutset) ELSE t

RECURSIVE TrimRight(_, _)
TrimRight(t, cutset) ==
    IF Len(t) > 0 /\ t[Len(t)] \in cutset
    THEN TrimRight(SubSeq(t, 1, Len(t) - 1), cutset) ELSE t

Trim(t, cutset) == TrimRight(TrimLeft(t, cutset), cutset)

TrimSpace(t) == Trim(t, {" "})

\* the index of the first rune of t that is in S, or 0
FirstIn(t, S) ==
    IF \E i \in 1..Len(t) : t[i] \in S
    THEN CHOOSE i \in 1..Len(t) : t[i] \in S /\ \A j \in 1..(i - 1) : t[j] \notin S
    ELSE 0

\* strings.Fields: the maximal runs without white space
RECURSIVE Fields(_)
Fields(t) ==
    LET u == TrimLeft(t, {" "})
        k == FirstIn(u, {" "})
    IN IF Len(u) = 0 THEN <<>>
       ELSE IF k = 0 THEN <<u>>
       ELSE <<SubSeq(u, 1, k - 1)>> \o Fields(SubSeq(u, k, Len(u)))

\* strings.Join(tokens[from..], " ")
RECURSIVE JoinFrom(_, _)
JoinFrom(tokens, from) ==
    IF from > Len(tokens) THEN <<>>
    ELSE IF from = Len(tokens) THEN tokens[from]
    ELSE tokens[from] \o <<" ">> \o JoinFrom(tokens, from + 1)

Contains(t, c) == \E i \in 1..Len(t) : t[i] = c

Count(t, c) == Cardinality({i \in 1..Len(t) : t[i] = c})

\* the vulgar fraction glyphs: 1/4, 1/2, 3/4, 1/7, 1/3
Glyphs == {"U+00BC", "U+00BD", "U+00BE", "U+2150", "U+2153"}

isUnicodeFraction(r) == r \in Glyphs

\* unicodeFractionToFloat: <<value, ok>>; the seventh has no case
unicodeFractionToFloat(r) ==
    CASE r = "U+00BC" -> [value |-> Rat(1, 4), ok |-> TRUE]
      [] r = "U+00BD" -> [value |-> Rat(1, 2), ok |-> TRUE]
      [] r = "U+00BE" -> [value |-> Rat(3, 4), ok |-> TRUE]
      [] r = "U+2153" -> [value |-> Rat(1, 3), ok |-> TRUE]
      [] OTHER -> [value |-> FromInt(0), ok |-> FALSE]

\* unicode.IsDigit(r) || r == '/' || r == '.' || isUnicodeFraction(r), for some r
containsNumeric(token) ==
    \E i \in 1..Len(token) :
        token[i] \in Digits \/ token[i] = "/" \/ token[i] = "." \/ isUnicodeFraction(token[i])

Failed == [value |-> FromInt(0), ok |-> FALSE]

Ok(value) == [value |-> value, ok |-> TRUE]

\* digits with at most one "." among them and at least one digit
IsDecimal(t) ==
    /\ \A i \in 1..Len(t) : t[i] \in Digits \cup {"."}
    /\ Count(t, ".") <= 1
    /\ \E i \in 1..Len(t) : t[i] \in Digits

DecimalValue(t) ==
    LET k == FirstIn(t, {"."})
    IN IF k = 0 THEN FromInt(Atoi(t))
       ELSE RAdd(FromInt(Atoi(SubSeq(t, 1, k - 1))),
                 Rat(Atoi(SubSeq(t, k + 1, Len(t))), Pow10(Len(t) - k)))

\* strconv.ParseFloat on the runes of the model: an optional sign, then a decimal
ParseFloat(t) ==
    LET signed == Len(t) > 0 /\ t[1] \in {"+", "-"}
        body == IF signed THEN Tail(t) ELSE t
    IN IF ~IsDecimal(body) THEN Failed
       ELSE IF signed /\ t[1] = "-"
            THEN Ok(RSub(FromInt(0), DecimalValue(body)))
            ELSE Ok(DecimalValue(body))

\* ^\s*([0-9]+(?:\.[0-9]+)?)\s*-\s*([0-9]+)\s*/\s*([0-9]+)\s*$ on a token
\* (a token holds no white space)
HyphenMixed(t) ==
    LET h == FirstIn(t, {"-"})
        sl == FirstIn(t, {"/"})
        whole == SubSeq(t, 1, h - 1)
        dot == FirstIn(whole, {"."})
    IN IF /\ h > 1 /\ sl > h + 1 /\ sl < Len(t)
          /\ AllDigits(SubSeq(t, h + 1, sl - 1))
          /\ AllDigits(SubSeq(t, sl + 1, Len(t)))
          /\ IF dot = 0 THEN AllDigits(whole)
             ELSE AllDigits(SubSeq(whole, 1, dot - 1))
                  /\ AllDigits(SubSeq(whole, dot + 1, Len(whole)))
       THEN [matched |-> TRUE, whole |-> DecimalValue(whole),
             num |-> Atoi(SubSeq(t, h + 1, sl - 1)),
             den |-> Atoi(SubSeq(t, sl + 1, Len(t)))]
       ELSE [matched |-> FALSE, whole |-> FromInt(0), num |-> 0, den |-> 0]

\* the runes of t that are in S, in their order
RECURSIVE Keep(_, _)
Keep(t, S) ==
    IF Len(t) = 0 THEN <<>>
    ELSE (IF t[1] \in S THEN <<t[1]>> ELSE <<>>) \o Keep(Tail(t), S)

\* the last lines of parseSingleToken: a "/" fraction or a decimal
PlainToken(normalized) ==
    IF Contains(normalized, "/")
    THEN LET k == FirstIn(normalized, {"/"})
             num == ParseFloat(SubSeq(normalized, 1, k - 1))
             den == ParseFloat(SubSeq(normalized, k + 1, Len(normalized)))
         IN IF Count(normalized, "/") # 1 \/ ~num.ok \/ ~den.ok \/ den.value.n = 0
            THEN Failed
            ELSE Ok(RDiv(num.value, den.value))
    ELSE ParseFloat(normalized)

\* parseSingleToken. The test len(normalized) == 1 && isUnicodeFraction(...) of
\* line 2619 never holds: a glyph is two or three bytes long.
parseSingleToken(token) ==
    LET normalized == Trim(token, {",", "(", ")"})
        hm == HyphenMixed(normalized)
        glyphs == Keep(normalized, Glyphs)
        wholePart == ParseFloat(Keep(normalized, Digits \cup {"."}))
        frac == unicodeFractionToFloat(glyphs[Len(glyphs)])
    IN IF Len(normalized) = 0 THEN Failed
       ELSE IF hm.matched /\ hm.den # 0
            THEN Ok(RAdd(hm.whole, Rat(hm.num, hm.den)))
       ELSE IF Len(glyphs) > 0 /\ frac.ok
            THEN Ok(RAdd(IF wholePart.ok THEN wholePart.value ELSE FromInt(0), frac.value))
       ELSE PlainToken(normalized)

\* Mutant of parseAmountTokens: a second token is never added.
parseAmountTokensFirstOnly(tokens) ==
    IF Len(tokens) = 0 THEN Failed ELSE parseSingleToken(tokens[1])

parseAmountTokens(tokens) ==
    IF Len(tokens) = 0 THEN Failed
    ELSE IF Len(tokens) = 1 THEN parseSingleToken(tokens[1])
    ELSE IF Len(tokens) = 2
         THEN LET first == parseSingleToken(tokens[1])
                  second == parseSingleToken(tokens[2])
              IN IF ~first.ok THEN Failed
                 ELSE IF second.ok /\ (\/ Contains(tokens[2], "/")
                                       \/ Contains(tokens[2], ".")
                                       \/ isUnicodeFraction(tokens[2][1]))
                      THEN Ok(RAdd(first.value, second.value))
                      ELSE Ok(first.value)
    ELSE parseSingleToken(tokens[1])

\* the loop of parseIngredientString from fields[idx]: <<amountTokens, idx>>
RECURSIVE AmountRun(_, _, _)
AmountRun(fields, idx, amountTokens) ==
    IF idx > Len(fields) THEN [tokens |-> amountTokens, idx |-> idx]
    ELSE LET token == Trim(fields[idx], {",", "(", ")"})
         IN IF Len(token) = 0 THEN AmountRun(fields, idx + 1, amountTokens)
            ELSE IF token = <<"-">> /\ Len(amountTokens) > 0
                 THEN [tokens |-> amountTokens, idx |-> idx]
            ELSE IF containsNumeric(token)
                 THEN AmountRun(fields, idx + 1, Append(amountTokens, token))
            ELSE [tokens |-> amountTokens, idx |-> idx]

NoParse(trimmed) == [value |-> Absent, amountText |-> <<>>, remainder |-> trimmed]

\* parseIngredientString(input): (value, amount text, remainder)
parseIngredientString(input) ==
    LET trimmed == TrimSpace(input)
        fields == Fields(trimmed)
        run == AmountRun(fields, 1, <<>>)
        val == parseAmountTokens(run.tokens)
    IN IF Len(trimmed) = 0 THEN NoParse(<<>>)
       ELSE IF Len(run.tokens) = 0 THEN NoParse(trimmed)
       ELSE IF val.ok
            THEN [value |-> val.value, amountText |-> JoinFrom(run.tokens, 1),
                  remainder |-> TrimSpace(JoinFrom(fields, run.idx))]
            ELSE NoParse(trimmed)

(***************************************************************************)
(* Specifications                                                          *)
(***************************************************************************)
\* The requests of the users in U for the pages in P, served by the handlers
\* in H, that insert at most maxItems rows
Requests(H, U, P, maxItems) ==
    \/ \E h \in H, user \in U, url \in P : handleSaveRecipe(h, user, url, maxItems)
    \/ \E h \in H : EnqueueRecipeCheck(h, maxItems)
    \/ \E h \in H : EnqueueRecipeInsert(h)

Scheduler ==
    \/ processQueueBatch
    \/ StartItem
    \/ BatchWait
    \/ SelectTick
    \/ Tick

Items ==
    \/ \E w \in workers : ItemStart(w, BOOLEAN)
    \/ \E w \in workers : ItemGetRecipe(w, GetRecipeOutcomes(w.url))
    \/ \E w \in workers : ItemSave(w, BOOLEAN)
    \/ \E w \in workers : ItemInvalidate(w)
    \/ \E w \in workers : ItemMark(w)
    \/ \E w \in workers : ItemFinalize(w)
    \/ \E w \in workers : ItemReturn(w)

\* Spec: one user's requests for one page, arriving one at a time, the
\* scheduler and its item goroutines; the store and the extraction may fail at
\* every call.
Next ==
    \/ Requests({1}, Submitters, {"http://a/pea-soup"}, MaxItems)
    \/ Scheduler
    \/ Items

Spec == Init /\ [][Next]_vars

\* SpecBatch: the processor starts on a backlog of Backlog pending rows left by
\* an earlier run (the queue table outlives the process), each already failed
\* BacklogAttempts times; no request arrives, the store answers, getRecipe
\* panics or returns a complete recipe, and main may cancel the context.
BacklogAttempts == 3

BacklogPairs ==
    <<[user |-> "alice", url |-> "http://a/pea-soup"],
      [user |-> "bob", url |-> "http://a/pea-soup"],
      [user |-> "alice", url |-> "http://b/pea_soup"],
      [user |-> "bob", url |-> "http://b/pea_soup"],
      [user |-> "alice", url |-> "http://c/"],
      [user |-> "bob", url |-> "http://c/"]>>

BacklogRow(k) ==
    [NewQueueRow(BacklogPairs[k].user, BacklogPairs[k].url)
        EXCEPT !.attempts = BacklogAttempts, !.last_error = Truncate(Err("getRecipe"))]

InitBatch ==
    /\ queue = [k \in 1..Backlog |-> BacklogRow(k)]
    /\ recipes = <<>>
    /\ handlers = [h \in 1..MaxHandlers |-> IdleHandler]
    /\ sched = "batch"
    /\ batch = <<>>
    /\ next = 1
    /\ slots = 0
    /\ wg = 0
    /\ workers = {}
    /\ tick = "noticker"
    /\ cancelled = FALSE
    /\ enqResult = Returned("none", FALSE)
    /\ recipeCache = {}
    /\ recipesCache = {}
    /\ favorites = {}
    /\ reader = IdleReader
    /\ writer = IdleWriter
    /\ InitFn

BatchItems ==
    \/ \E w \in workers : ItemStart(w, {TRUE})
    \/ \E w \in workers : ItemGetRecipe(w, BatchOutcomes(w.url))
    \/ \E w \in workers : ItemSave(w, {TRUE})
    \/ \E w \in workers : ItemInvalidate(w)
    \/ \E w \in workers : ItemMark(w)
    \/ \E w \in workers : ItemFinalize(w)
    \/ \E w \in workers : ItemReturn(w)

NextBatch ==
    \/ Scheduler
    \/ BatchItems
    \/ SelectDone
    \/ Cancel

SpecBatch == InitBatch /\ [][NextBatch]_vars

\* SpecStore: the processor and two concurrent requests of one user for one
\* page, on a store that is empty or that earlier processing of the page has
\* filled: the fallback placeholder of a failed extraction (slug of the fetched
\* title), the recipe of a later successful extraction (slug of the extracted
\* title), or both. The store answers and getRecipe returns a recipe.
StorePage == "http://a/pea-soup"

PlaceholderRow ==
    LET fb == FallbackTitleAndSlug(StorePage, "Pea Soup - Blog")
    IN [user |-> "alice", slug |-> fb.slug,
        recipe |-> Placeholder(fb.title, "", StorePage, normalizeCategoryOrOther(""))]

FullRow ==
    [user |-> "alice", slug |-> Slugify("Pea Soup"),
     recipe |-> Recipe("Pea Soup", "img", StorePage, "dinner", <<"1 cup peas">>, <<"boil">>)]

Stores == {<<>>, <<PlaceholderRow>>, <<FullRow>>, <<PlaceholderRow, FullRow>>}

InitStore ==
    /\ queue = <<>>
    /\ recipes \in Stores
    /\ handlers = [h \in 1..MaxHandlers |-> IdleHandler]
    /\ sched = "batch"
    /\ batch = <<>>
    /\ next = 1
    /\ slots = 0
    /\ wg = 0
    /\ workers = {}
    /\ tick = "noticker"
    /\ cancelled = FALSE
    /\ enqResult = Returned("none", FALSE)
    /\ recipeCache = {}
    /\ recipesCache = {}
    /\ favorites = {}
    /\ reader = IdleReader
    /\ writer = IdleWriter
    /\ InitFn

StoreItemSteps ==
    \/ \E w \in workers : ItemStart(w, {TRUE})
    \/ \E w \in workers : ItemGetRecipe(w, StoreOutcomes(w.url))
    \/ \E w \in workers : ItemSave(w, {TRUE})
    \/ \E w \in workers : ItemInvalidate(w)
    \/ \E w \in workers : ItemMark(w)
    \/ \E w \in workers : ItemReturn(w)

NextStore ==
    \/ Requests({1, 2}, Submitters, {StorePage}, StoreItems)
    \/ Scheduler
    \/ StoreItemSteps

SpecStore == InitStore /\ [][NextStore]_vars

\* SpecItem: the processor starts with one pending row, on any of the stores,
\* and no request arrives; the store and the extraction may fail at every
\* call. The row is a row of alice for the page, or a row whose user row is
\* gone (Preload("User") then leaves item.User.Username empty), or a row of
\* alice for another page with a recipe of the same name.
OrphanRow == NewQueueRow("", StorePage)

OtherPage == "http://b/pea_soup"

InitItem ==
    /\ queue \in {<<NewQueueRow("alice", StorePage)>>, <<OrphanRow>>,
                  <<NewQueueRow("alice", OtherPage)>>}
    /\ recipes \in Stores
    /\ handlers = [h \in 1..MaxHandlers |-> IdleHandler]
    /\ sched = "batch"
    /\ batch = <<>>
    /\ next = 1
    /\ slots = 0
    /\ wg = 0
    /\ workers = {}
    /\ tick = "noticker"
    /\ cancelled = FALSE
    /\ enqResult = Returned("none", FALSE)
    /\ recipeCache = {}
    /\ recipesCache = {}
    /\ favorites = {}
    /\ reader = IdleReader
    /\ writer = IdleWriter
    /\ InitFn

NextItem ==
    \/ Scheduler
    \/ Items

SpecItem == InitItem /\ [][NextItem]_vars

\* SpecCache: the users read and write the recipe of the page, by slug and by
\* id, one read request and one write request at a time; the queue is empty.
CacheSlugs == {FullRow.slug}

CacheTitles == {"Split Pea Soup"}

InitCache ==
    /\ queue = <<>>
    /\ recipes = <<FullRow>>
    /\ handlers = [h \in 1..MaxHandlers |-> IdleHandler]
    /\ sched = "batch"
    /\ batch = <<>>
    /\ next = 1
    /\ slots = 0
    /\ wg = 0
    /\ workers = {}
    /\ tick = "noticker"
    /\ cancelled = FALSE
    /\ enqResult = Returned("none", FALSE)
    /\ recipeCache = {}
    /\ recipesCache = {}
    /\ favorites = {}
    /\ reader = IdleReader
    /\ writer = IdleWriter
    /\ InitFn

Reads ==
    \/ \E user \in Submitters, slug \in CacheSlugs : handleGetRecipe(user, slug)
    \/ \E user \in Submitters, id \in 1..Len(recipes) : handleGetRecipeByID(user, id)
    \/ \E user \in Submitters : listRecipes(user, "")
    \/ ReadSet

Writes ==
    \/ \E user \in Submitters, slug \in CacheSlugs, favorite \in BOOLEAN :
          handleFavoriteRecipe(user, slug, favorite)
    \/ \E user \in Submitters, id \in 1..Len(recipes), favorite \in BOOLEAN :
          handleFavoriteRecipeByID(user, id, favorite)
    \/ \E user \in Submitters, slug \in CacheSlugs : handleDeleteRecipe(user, slug)
    \/ \E user \in Submitters, id \in 1..Len(recipes) : handleDeleteRecipeByID(user, id)
    \/ \E user \in Submitters, slug \in CacheSlugs, title \in CacheTitles :
          handlePatchRecipe(user, slug, title)
    \/ \E user \in Submitters, id \in 1..Len(recipes), title \in CacheTitles :
          handlePatchRecipeByID(user, id, title)
    \/ WriteInvalidate

NextCache ==
    \/ Reads
    \/ Writes

SpecCache == InitCache /\ [][NextCache]_vars

\* SpecEnqueue: concurrent calls of EnqueueRecipe with every kind of argument
\* (known, unknown and empty user names; pages and blank URLs) on an empty
\* queue table; the processor does not run.
NextEnqueue ==
    \/ \E h \in 1..MaxHandlers, user \in Users \cup UnknownUsers, url \in URLs \cup BlankURLs :
          EnqueueRecipe(h, user, url)
    \/ \E h \in 1..MaxHandlers : EnqueueRecipeCheck(h, MaxItems)
    \/ \E h \in 1..MaxHandlers : EnqueueRecipeInsert(h)

SpecEnqueue == Init /\ [][NextEnqueue]_vars

\* SpecFetch: the processor starts on FetchBacklog rows left by an earlier
\* run, more than one batch holds; row 2 may have been processed by that run,
\* the others failed BacklogAttempts times; getRecipe panics on every page.
PanicOutcomes(url) == {o \in GetRecipeOutcomes(url) : o.tag = "panic"}

FetchRow(k, done) ==
    [BacklogRow(((k - 1) % Len(BacklogPairs)) + 1) EXCEPT !.processed = k \in done]

InitFetch ==
    /\ \E done \in {{}, {2}} : queue = [k \in 1..FetchBacklog |-> FetchRow(k, done)]
    /\ recipes = <<>>
    /\ handlers = [h \in 1..MaxHandlers |-> IdleHandler]
    /\ sched = "batch"
    /\ batch = <<>>
    /\ next = 1
    /\ slots = 0
    /\ wg = 0
    /\ workers = {}
    /\ tick = "noticker"
    /\ cancelled = FALSE
    /\ enqResult = Returned("none", FALSE)
    /\ recipeCache = {}
    /\ recipesCache = {}
    /\ favorites = {}
    /\ reader = IdleReader
    /\ writer = IdleWriter
    /\ InitFn

FetchItemSteps ==
    \/ \E w \in workers : ItemStart(w, {TRUE})
    \/ \E w \in workers : ItemGetRecipe(w, PanicOutcomes(w.url))
    \/ \E w \in workers : ItemMark(w)
    \/ \E w \in workers : ItemFinalize(w)
    \/ \E w \in workers : ItemReturn(w)

NextFetch ==
    \/ Scheduler
    \/ FetchItemSteps

SpecFetch == InitFetch /\ [][NextFetch]_vars

\* LiveSpec: Spec with LiveItems rows, under the fairness the Go runtime gives:
\* every runnable goroutine is eventually scheduled and the ticker keeps
\* firing; the context is never cancelled.
NextLive ==
    \/ Requests({1}, Submitters, {"http://a/pea-soup"}, LiveItems)
    \/ Scheduler
    \/ Items

Fairness ==
    /\ WF_vars(processQueueBatch)
    /\ WF_vars(StartItem)
    /\ WF_vars(BatchWait)
    /\ WF_vars(SelectTick)
    /\ WF_vars(Tick)
    /\ WF_vars(Items)

LiveSpec == Init /\ [][NextLive]_vars /\ Fairness

(***************************************************************************)
(* Properties                                                              *)
(***************************************************************************)
WorkersOf(i) == {w \in workers : w.id = i}

\* The step is the UPDATE of MarkQueueItemResult made by goroutine w.
MarkStep(w) ==
    /\ w \in workers
    /\ w.pc = "mark"
    /\ w \notin workers'
    /\ queue'[w.id] # queue[w.id]

\* The step is the fetch of a non-empty batch.
FetchStep == sched = "batch" /\ sched' = "dispatch"

BatchIds(b) == {b[k].id : k \in 1..Len(b)}

EventuallyProcessed ==
    \A i \in 1..LiveItems :
        (i <= Len(queue)) ~> (i <= Len(queue) /\ queue[i].processed)

\* C2 witness: a row that failed at least once and is processed.
EventuallyProcessedWitness ==
    \E i \in QueueIds : queue[i].processed /\ queue[i].attempts >= 2

\* C3: a failed attempt below the ceiling. The UPDATE of a failure adds exactly
\* 1 to attempts and stores the (truncated) message; when the call has returned
\* with fewer than 5 attempts the row is still pending and holds the message;
\* and a fetch takes every pending row when at most queueBatchSize are pending.
FailureBelowCeiling ==
    /\ [][\A w \in workers :
            (MarkStep(w) /\ w.err # Nil)
               => /\ queue'[w.id].attempts = queue[w.id].attempts + 1
                  /\ queue'[w.id].last_error = Truncate(w.err)
                  /\ queue'[w.id].last_error.kind = w.err.kind
                  /\ ~queue'[w.id].processed]_vars
    /\ [][FetchStep /\ Cardinality(PendingIds) <= queueBatchSize
            => BatchIds(batch') = PendingIds]_vars
    /\ [](\A w \in workers :
            (w.pc = "done" /\ w.err # Nil /\ queue[w.id].attempts < MaxAttempts)
               => /\ ~queue[w.id].processed
                  /\ queue[w.id].last_error = Truncate(w.err))

\* C3 witness: a goroutine has returned from recording a failure below the
\* ceiling of a row that had failed before.
FailureBelowCeilingWitness ==
    \E w \in workers :
        /\ w.pc = "done"
        /\ w.err # Nil
        /\ queue[w.id].attempts \in 2..(MaxAttempts - 1)
        /\ ~queue[w.id].processed

\* C4: success. The UPDATE of a success (lines 102, 130, 166, 183) sets the
\* processed timestamp and clears last_error whatever the attempts were, and a
\* committed SaveRecipeForUser is always followed by such a call.
SuccessFinalizes ==
    /\ [][\A w \in workers :
            (MarkStep(w) /\ w.err = Nil)
               => /\ queue'[w.id].processed
                  /\ queue'[w.id].last_error = NULL
                  /\ queue'[w.id].attempts = queue[w.id].attempts + 1]_vars
    /\ [][\A w \in workers :
            (w.pc = "save" /\ recipes' # recipes /\ w \notin workers')
               => \E w2 \in workers' : w2.id = w.id /\ w2.pc = "invalidate"]_vars
    /\ [][\A w \in workers :
            (w.pc = "invalidate" /\ w \notin workers')
               => \E w2 \in workers' : w2.id = w.id /\ w2.pc = "mark" /\ w2.err = Nil]_vars
    /\ [](\A w \in workers :
            (w.pc = "done" /\ w.line \in {102, 130, 166, 183})
               => /\ w.err = Nil
                  /\ queue[w.id].processed
                  /\ queue[w.id].last_error = NULL)

\* C4 witness: a success recorded on a row that had failed before.
SuccessFinalizesWitness ==
    \E w \in workers :
        /\ w.pc = "done"
        /\ w.err = Nil
        /\ queue[w.id].attempts >= 2
        /\ queue[w.id].processed
        /\ queue[w.id].last_error = NULL

\* C5: queue dedup. An EnqueueRecipe call that runs its pending check while a
\* pending row of the same user and URL exists returns nil and inserts
\* nothing: the queue is unchanged and the call is over.
EnqueueDedup ==
    [][\A h \in 1..MaxHandlers :
         (/\ handlers[h].pc = "enqueue"
          /\ handlers'[h] # handlers[h]
          /\ \E i \in QueueIds : /\ queue[i].user = handlers[h].user
                                 /\ queue[i].url = handlers[h].url
                                 /\ ~queue[i].processed)
            => /\ queue' = queue
               /\ handlers'[h].pc = "idle"
               /\ enqResult' = Returned("nil", FALSE)]_vars

\* C5 witness: a second call has returned nil without inserting while the
\* row of the first call is pending.
EnqueueDedupWitness ==
    /\ enqResult = Returned("nil", FALSE)
    /\ Cardinality(PendingIds) = 1
    /\ Len(queue) = 1

\* C32 as claimed: at most one pending queue row exists per (user, URL) at any
\* time, also when the pending checks and the inserts of two EnqueueRecipe
\* calls for the same user and URL interleave.
OnePendingPerPair ==
    \A i, j \in PendingIds :
        (queue[i].user = queue[j].user /\ queue[i].url = queue[j].url) => i = j

\* C6: bounded parallelism. Every running item goroutine holds one token of
\* workerSlots, so at most queueConcurrency run at once; the token is taken
\* before the goroutine starts and given back when it ends; a batch holds at
\* most queueBatchSize items.
BoundedParallelism ==
    /\ Cardinality(workers) <= queueConcurrency
    /\ slots = Cardinality(workers)
    /\ wg = Cardinality(workers)
    /\ Len(batch) <= queueBatchSize

\* C6 witness: queueConcurrency goroutines run and the loop of
\* processQueueBatch is blocked on the token of the fifth item.
BoundedParallelismWitness ==
    /\ Cardinality(workers) = queueConcurrency
    /\ sched = "dispatch"
    /\ next = queueConcurrency + 1
    /\ Len(batch) = queueBatchSize
    /\ \A w \in workers : w.pc = "getRecipe"

\* C7: batches never overlap. Outside processQueueBatch (before a fetch, in the
\* select, after the stop) no item goroutine exists; every goroutine works on
\* an item of the current batch and no two of them on the same item.
BatchesNeverOverlap ==
    /\ sched \in {"batch", "select", "stopped"} => workers = {} /\ wg = 0 /\ slots = 0
    /\ \A w \in workers : w.id \in BatchIds(batch)
    /\ \A w1, w2 \in workers : w1.id = w2.id => w1 = w2

\* C7 witness: the ticker has fired while the goroutines of a batch still run.
BatchesNeverOverlapWitness ==
    /\ tick = "full"
    /\ sched = "dispatch"
    /\ next > Len(batch)
    /\ Cardinality(workers) >= 2

\* C8: panic containment. A goroutine whose processQueueItem recovered a panic
\* (line 76) has recorded it: when it ends, its row holds the panic message and
\* one more attempt than the batch fetched, and the token is released; when
\* processQueueBatch returns to the select every item of the batch has been
\* marked once; the recovered goroutine goes on to MarkQueueItemResult.
PanicContained ==
    /\ [][\A w \in workers :
            (w.pc = "done" /\ w.line = 76 /\ w \notin workers')
               => /\ slots' = slots - 1
                  /\ wg' = wg - 1
                  /\ queue[w.id].last_error = Truncate(Err("panic"))
                  /\ queue[w.id].processed <=> queue[w.id].attempts >= MaxAttempts
                  /\ \A k \in 1..Len(batch) :
                        batch[k].id = w.id => queue[w.id].attempts = batch[k].attempts + 1]_vars
    /\ [][(sched = "dispatch" /\ sched' = "select")
            => /\ workers = {}
               /\ \A k \in 1..Len(batch) :
                     queue[batch[k].id].attempts = batch[k].attempts + 1]_vars
    /\ [](\A w \in workers : w.line = 76 => w.err = Err("panic"))

\* C8 witness: a later tick has started a batch after a batch in which one
\* item panicked (and stays pending) and another was processed.
PanicContainedWitness ==
    /\ sched = "dispatch"
    /\ tick = "empty"
    /\ \E i \in QueueIds : queue[i].last_error.kind = "panic" /\ ~queue[i].processed
    /\ \E j \in QueueIds : queue[j].last_error = NULL /\ queue[j].processed

IsFallbackPlaceholder(save, url) ==
    \E fetched \in FetchedTitles(url) :
        /\ save.slug = FallbackTitleAndSlug(url, fetched).slug
        /\ save.recipe.title = FallbackTitleAndSlug(url, fetched).title
        /\ save.recipe.ingredients = <<>>
        /\ save.recipe.instructions = <<>>
        /\ save.recipe.originalURL = url

Stored(user, save) ==
    \E i \in 1..Len(recipes) :
        /\ recipes[i].user = user
        /\ recipes[i].slug = save.slug
        /\ recipes[i].recipe.title = save.recipe.title
        /\ recipes[i].recipe.ingredients = save.recipe.ingredients
        /\ recipes[i].recipe.instructions = save.recipe.instructions
        /\ recipes[i].recipe.originalURL = save.recipe.originalURL

\* C9: placeholder on extraction failure. After getRecipe returns (no panic)
\* the goroutine always goes on to a SaveRecipeForUser call; the call of line
\* 120 saves the fallback title and slug, no ingredients, no instructions and
\* the item's URL; when that save commits the row is stored and the item is
\* marked with nil (line 130), and is then processed with no last_error.
PlaceholderOnFailure ==
    /\ [][\A w \in workers :
            (w.pc = "getRecipe" /\ w \notin workers')
               => \E w2 \in workers' :
                     w2.id = w.id /\ (w2.pc = "save" \/ w2.line = 76)]_vars
    /\ [][\A w \in workers :
            (w.pc = "save" /\ w.line = 120 /\ w \notin workers')
               => \E w2 \in workers' :
                     /\ w2.id = w.id
                     /\ \/ w2.pc = "invalidate" /\ w2.line = 120 /\ Stored(w.user, w.save)'
                        \/ w2.pc = "mark" /\ w2.line = 122 /\ w2.err # Nil
                              /\ recipes' = recipes]_vars
    /\ [][\A w \in workers :
            (w.pc = "invalidate" /\ w.line = 120 /\ w \notin workers')
               => \E w2 \in workers' :
                     w2.id = w.id /\ w2.pc = "mark" /\ w2.line = 130 /\ w2.err = Nil]_vars
    /\ [](\A w \in workers :
            /\ (w.pc = "save" /\ w.line = 120) => IsFallbackPlaceholder(w.save, w.url)
            /\ (w.pc = "done" /\ w.line = 130)
                 => queue[w.id].processed /\ queue[w.id].last_error = NULL)

\* C9 witness: an item whose extraction failed is processed at its first
\* attempt and its placeholder is in the store.
PlaceholderOnFailureWitness ==
    \E w \in workers :
        /\ w.pc = "done"
        /\ w.line = 130
        /\ queue[w.id].processed
        /\ queue[w.id].attempts = 1
        /\ \E i \in 1..Len(recipes) :
              /\ recipes[i].user = w.user
              /\ recipes[i].recipe.originalURL = w.url
              /\ recipes[i].recipe.ingredients = <<>>
              /\ recipes[i].recipe.instructions = <<>>
              /\ recipes[i].recipe.title \in {"pea soup", "Pea Soup - Blog"}

PersistenceErrorRecorded ==
    \A w \in workers :
        (w.pc = "done" /\ w.line \in {122, 159, 174})
           => /\ queue[w.id].last_error = Truncate(Err("save"))
              /\ queue[w.id].attempts < MaxAttempts => ~queue[w.id].processed

\* C12 as claimed: while a complete recipe with the item's URL exists for the
\* item's user, the item's goroutine never calls getRecipe; an item that was
\* linked (the mark of line 102) is processed with no last_error.
LinkedWithoutExtraction ==
    \A w \in workers :
        /\ w.pc = "getRecipe"
             => ~\E i \in 1..Len(recipes) :
                    /\ recipes[i].user = w.user
                    /\ recipes[i].recipe.originalURL = w.url
                    /\ recipeIsComplete(recipes[i].recipe)
        /\ (w.pc = "done" /\ w.line = 102)
             => queue[w.id].processed /\ queue[w.id].last_error = NULL

IsMinimalPlaceholder(save, url, r) ==
    \E fetched \in FetchedTitles(url) :
        /\ save.recipe.title =
              IF r.title = "" THEN FallbackTitleAndSlug(url, fetched).title ELSE r.title
        /\ save.slug =
              IF r.title = "" THEN FallbackTitleAndSlug(url, fetched).slug ELSE Slugify(r.title)
        /\ save.recipe.image = r.image
        /\ save.recipe.category = r.category
        /\ save.recipe.ingredients = <<>>
        /\ save.recipe.instructions = <<>>
        /\ save.recipe.originalURL = url

\* C13: minimal placeholder. A goroutine that leaves getRecipe for the save of
\* line 157 carries the title, image and category of an incomplete extracted
\* recipe (fallback title and slug when they are empty), no ingredients, no
\* instructions and the item's URL; the save of line 172 carries a complete
\* recipe only; a committed save of line 157 stores that placeholder and leads
\* to the nil mark of line 166, which leaves the item processed; no stored
\* recipe holds the lines of an incomplete extraction.
MinimalPlaceholder ==
    /\ [][\A w \in workers : \A w2 \in workers' :
            (w.pc = "getRecipe" /\ w \notin workers' /\ w2.id = w.id /\ w2.pc = "save")
               => \/ w2.line = 157
                       /\ \E r \in ExtractedRecipes(w.url) :
                             ~recipeIsComplete(r) /\ IsMinimalPlaceholder(w2.save, w.url, r)
                  \/ w2.line = 172 /\ recipeIsComplete(w2.save.recipe)
                  \/ w2.line = 120]_vars
    /\ [][\A w \in workers : \A w2 \in workers' :
            (w.line = 157 /\ w \notin workers' /\ w2.id = w.id)
               => \/ w.pc = "save" /\ w2.pc = "invalidate" /\ w2.line = 157
                       /\ Stored(w.user, w.save)'
                  \/ w.pc = "save" /\ w2.pc = "mark" /\ w2.line = 159 /\ w2.err # Nil
                       /\ recipes' = recipes
                  \/ w.pc = "invalidate" /\ w2.pc = "mark" /\ w2.line = 166 /\ w2.err = Nil]_vars
    /\ [](\A w \in workers :
            (w.pc = "done" /\ w.line = 166)
               => queue[w.id].processed /\ queue[w.id].last_error = NULL)
    /\ [](\A i \in 1..Len(recipes) :
            \/ recipeIsComplete(recipes[i].recipe)
            \/ recipes[i].recipe.ingredients = <<>> /\ recipes[i].recipe.instructions = <<>>)

\* C13 witness: an item whose extraction gave a title, an image and a category
\* but a blank instruction is processed, and its placeholder is stored.
MinimalPlaceholderWitness ==
    \E w \in workers :
        /\ w.pc = "done"
        /\ w.line = 166
        /\ queue[w.id].processed
        /\ \E i \in 1..Len(recipes) :
              /\ recipes[i].user = w.user
              /\ recipes[i].slug = "pea-soup"
              /\ recipes[i].recipe.title = "Pea Soup"
              /\ recipes[i].recipe.image = "img"
              /\ recipes[i].recipe.category = "dinner"
              /\ recipes[i].recipe.originalURL = w.url
              /\ recipes[i].recipe.ingredients = <<>>
              /\ recipes[i].recipe.instructions = <<>>

SameKey(row, user, slug) == row.user = user /\ row.slug = slug

\* C14: SaveRecipeForUser is an upsert on (user, slug). No two records share a
\* user and a slug; a committed save leaves one record of its key holding the
\* saved fields, adds a record only when the key was new and leaves the other
\* records alone; the nil mark of line 183 is reached only through the cache
\* invalidation of line 180, and that only through a committed save of line 172.
UpsertByUserSlug ==
    /\ [](\A i, j \in 1..Len(recipes) :
            SameKey(recipes[i], recipes[j].user, recipes[j].slug) => i = j)
    /\ [][\A w \in workers : \A w2 \in workers' :
            (w.pc = "save" /\ w \notin workers' /\ w2.id = w.id /\ w2.pc = "invalidate")
               => /\ Len(recipes') =
                        Len(recipes) + (IF RecipeRowOf(w.user, w.save.slug) = {} THEN 1 ELSE 0)
                  /\ \A i \in 1..Len(recipes) :
                        IF SameKey(recipes[i], w.user, w.save.slug)
                        THEN /\ SameKey(recipes'[i], w.user, w.save.slug)
                             /\ recipes'[i].recipe =
                                   [w.save.recipe EXCEPT
                                       !.category = normalizeCategoryOrOther(@)]
                        ELSE recipes'[i] = recipes[i]
                  /\ Stored(w.user, w.save)']_vars
    /\ [][\A w2 \in workers' \ workers :
            /\ (w2.pc = "mark" /\ w2.line = 183)
                 => \E w \in workers : w.id = w2.id /\ w.pc = "invalidate" /\ w.line = 172
            /\ (w2.pc = "invalidate" /\ w2.line = 172)
                 => \E w \in workers :
                       /\ w.id = w2.id /\ w.pc = "save" /\ w.line = 172
                       /\ Stored(w.user, w.save)']_vars

\* C14 witness: the second item of a page is processed by a full save that
\* replaced the placeholder the first item had stored under the same slug.
UpsertByUserSlugWitness ==
    \E w \in workers :
        /\ w.pc = "done"
        /\ w.line = 183
        /\ w.id = 2
        /\ queue[1].processed /\ queue[1].last_error = NULL
        /\ queue[2].processed
        /\ Len(recipes) = 1
        /\ recipeIsComplete(recipes[1].recipe)

\* C15: an item whose user has an empty username. Its goroutine goes from the
\* start to the MarkQueueItemResult call of line 86 with the missing-username
\* error, whatever LinkRecipeIfExists would answer, then through the mark to
\* its end; it never reaches getRecipe, a save or a cache invalidation, and
\* none of its steps changes the recipes or the caches.
MissingUserFails ==
    /\ [][\A w \in workers : \A w2 \in workers' :
            (w.user = "" /\ w \notin workers' /\ w2.id = w.id)
               => /\ recipes' = recipes
                  /\ cacheVars' = cacheVars
                  /\ \/ w.pc = "start" /\ w2.pc = "mark" /\ w2.line = 86
                          /\ w2.err = Err("username") /\ queue' = queue
                     \/ w.pc = "mark" /\ w2.pc = "finalize" /\ w2.line = 86
                          /\ queue'[w.id].attempts = queue[w.id].attempts + 1
                     \/ w.pc = "finalize" /\ w2.pc = "done" /\ w2.line = 86]_vars
    /\ [](\A w \in workers :
            w.user = ""
               => /\ w.pc \in {"start", "mark", "finalize", "done"}
                  /\ w.pc = "done"
                       => queue[w.id].last_error = Truncate(Err("username")))

\* C15 witness: an item without username has been marked failed and is pending.
MissingUserFailsWitness ==
    \E w \in workers :
        /\ w.user = ""
        /\ w.pc = "done"
        /\ w.line = 86
        /\ queue[w.id].attempts = 2
        /\ ~queue[w.id].processed
        /\ queue[w.id].last_error.kind = "username"

MarkLines == {76, 86, 95, 102, 122, 130, 159, 166, 174, 183}

\* C16: one MarkQueueItemResult call per processQueueItem. When a goroutine
\* ends, its row counts one attempt more than the batch fetched; a goroutine
\* enters the mark from the start, getRecipe, a save or an invalidation, never
\* from a mark; it ends only after a mark at one of the ten call sites; a row
\* changes only in the mark of a goroutine of that row; no row is removed from
\* the queue and no row changes its user or URL.
ExactlyOneMark ==
    /\ [][\A w \in workers :
            (w.pc = "done" /\ w \notin workers')
               => \A k \in 1..Len(batch) :
                     batch[k].id = w.id => queue[w.id].attempts = batch[k].attempts + 1]_vars
    /\ [][\A w \in workers : \A w2 \in workers' \ workers :
            (w \notin workers' /\ w2.id = w.id)
               => /\ w2.pc = "mark" => w.pc \in {"start", "getRecipe", "save", "invalidate"}
                  /\ w2.pc = "finalize" => w.pc = "mark"
                  /\ w2.pc = "done" => w.pc \in {"mark", "finalize"}]_vars
    /\ [][\A w \in workers :
            (w \notin workers' /\ ~\E w2 \in workers' : w2.id = w.id) => w.pc = "done"]_vars
    /\ [][/\ Len(queue') >= Len(queue)
          /\ \A i \in QueueIds :
                /\ queue'[i].user = queue[i].user
                /\ queue'[i].url = queue[i].url
                /\ queue'[i] # queue[i]
                     => \E w \in workers :
                           w.id = i /\ w.pc \in {"mark", "finalize"} /\ w \notin workers']_vars
    /\ [](\A w \in workers : w.pc \in {"mark", "finalize", "done"} => w.line \in MarkLines)

\* C16 witness: a goroutine ends after the mark that follows a recovered panic,
\* on the second attempt of its item.
ExactlyOneMarkWitness ==
    \E w \in workers :
        /\ w.pc = "done"
        /\ w.line = 76
        /\ queue[w.id].attempts = 2
        /\ \E k \in 1..Len(batch) : batch[k].id = w.id /\ batch[k].attempts = 1

EntryOf(key, user, slug, id) ==
    /\ key.user = user
    /\ \/ key.kind = "recipe" /\ key.name = slug
       \/ key.kind = "recipe-id" /\ key.id = id

\* C17 as claimed: when a write handler has made its cache deletions after a
\* successful write, and when an item goroutine has made them after a link or
\* a save, recipeCache holds no entry of the written recipe (under its slug or
\* under its id) and recipesCache holds no listing of that user.
CachesInvalidatedAfterWrite ==
    /\ [][(writer.pc = "invalidate" /\ writer'.pc = "idle")
            => /\ \A e \in recipeCache' :
                     ~EntryOf(e.key, writer.user, writer.slug, writer.id)
               /\ \A e \in recipesCache' : e.key.user # writer.user]_vars
    /\ [][\A w \in workers :
            (w.pc = "invalidate" /\ w \notin workers')
               => /\ \A e \in recipeCache' : \A i \in RecipeRowOf(w.user, w.save.slug) :
                        ~EntryOf(e.key, w.user, w.save.slug, i)
                  /\ \A e \in recipesCache' : e.key.user # w.user]_vars

\* what the store answers now to the read that fills the entry of `key`
StoreValue(key) ==
    CASE key.kind = "recipe" -> GetRecipe(key.user, key.name)
      [] key.kind = "recipe-id" -> GetRecipeByID(key.user, key.id)
      [] OTHER -> ListRecipes(key.user)

\* C33 as claimed: no stale cache entry survives a write. When a read
\* (handleGetRecipe, listRecipes) makes its cache Set while no write is between
\* its store access and its cache deletions, the entry it leaves holds what the
\* store holds, so that a read starting after both have finished returns the
\* written data; this also when the read loaded its value before the write.
NoStaleEntrySurvives ==
    [][(reader.pc = "set" /\ reader'.pc = "idle" /\ writer.pc = "idle")
          => \A e \in recipeCache' \cup recipesCache' :
                e.key = reader.key => e.val = StoreValue(e.key)]_vars

\* C34 as claimed: processing a queue item never replaces a complete recipe
\* by an incomplete one. A record that is complete stays complete through
\* every step of an item goroutine, also through a placeholder save (fallback
\* or minimal) under the slug of that record.
CompleteNeverReplaced ==
    [][\A i \in 1..Len(recipes) :
          recipeIsComplete(recipes[i].recipe)
             => /\ i <= Len(recipes')
                /\ recipes'[i].user = recipes[i].user
                /\ recipes'[i].slug = recipes[i].slug
                /\ recipeIsComplete(recipes'[i].recipe)]_vars

\* C35 as claimed: persistence is idempotent per source URL. After any
\* sequence of submissions and processing attempts, a user has at most one
\* recipe record with a given original URL.
OneRecordPerURL ==
    \A i, j \in 1..Len(recipes) :
        (/\ recipes[i].user = recipes[j].user
         /\ recipes[i].user # ""
         /\ recipes[i].recipe.originalURL = recipes[j].recipe.originalURL) => i = j

MarkedSinceFetch(k) == queue[batch[k].id].attempts = batch[k].attempts + 1

InputError(user, url) == Blank(url) \/ user = "" \/ user \notin Users

\* C19: input errors are rejected synchronously and never enqueued. A call of
\* EnqueueRecipe whose URL is blank, or whose user name is empty or unknown,
\* returns an error at its checks, without reaching the INSERT and with the
\* queue as it was; and no queue row ever holds a blank URL or a user that is
\* not in the users table.
InputErrorsRejected ==
    /\ [][\A h \in 1..MaxHandlers :
            (/\ handlers[h].pc = "enqueue"
             /\ handlers'[h] # handlers[h]
             /\ InputError(handlers[h].user, handlers[h].url))
               => /\ enqResult' = Returned("error", FALSE)
                  /\ handlers'[h] = IdleHandler
                  /\ queue' = queue]_vars
    /\ [](\A i \in QueueIds : ~InputError(queue[i].user, queue[i].url))

\* C19 witness: while the queue already holds a row, one call with an unknown
\* user and one with a blank URL are at the checks of EnqueueRecipe.
InputErrorsRejectedWitness ==
    /\ Len(queue) >= 1
    /\ \E h \in 1..MaxHandlers :
         handlers[h].pc = "enqueue" /\ handlers[h].user = "ghost" /\ ~Blank(handlers[h].url)
    /\ \E h \in 1..MaxHandlers :
         handlers[h].pc = "enqueue" /\ handlers[h].user \in Users /\ handlers[h].url = " "

\* C20: each batch holds at most queueBatchSize items, all of them pending
\* when fetched, in the order of their creation, and no pending row older than
\* a fetched one is left out.
BatchOldestPending ==
    /\ [][FetchStep
            => /\ Len(batch') <= queueBatchSize
               /\ \A k \in 1..Len(batch') : batch'[k].id \in PendingIds
               /\ \A j, k \in 1..Len(batch') : j < k => batch'[j].id < batch'[k].id
               /\ \A i \in PendingIds : \A k \in 1..Len(batch') :
                     i < batch'[k].id => i \in BatchIds(batch')]_vars
    /\ [](Len(batch) <= queueBatchSize)

\* C20 witness: a batch of queueBatchSize items was fetched that skipped a
\* processed row and left a newer pending row in the queue.
BatchOldestPendingWitness ==
    /\ sched = "dispatch"
    /\ next = 1
    /\ Len(batch) = queueBatchSize
    /\ \E i \in QueueIds : queue[i].processed /\ i < batch[Len(batch)].id
    /\ \E i \in PendingIds : i > batch[Len(batch)].id

(***************************************************************************)
(* Amount texts: formatAmount and parseIngredientString applied to amounts *)
(* and to ingredient lines                                                 *)
(***************************************************************************)
\* the service with empty tables and nothing running
Quiescent ==
    /\ queue = <<>>
    /\ recipes = <<>>
    /\ handlers = [h \in 1..MaxHandlers |-> IdleHandler]
    /\ sched = "batch"
    /\ batch = <<>>
    /\ next = 1
    /\ slots = 0
    /\ wg = 0
    /\ workers = {}
    /\ tick = "noticker"
    /\ cancelled = FALSE
    /\ enqResult = Returned("none", FALSE)
    /\ recipeCache = {}
    /\ recipesCache = {}
    /\ favorites = {}
    /\ reader = IdleReader
    /\ writer = IdleWriter
    /\ main = Idle
    /\ auth = Idle

progVars == <<queue, recipes, handlers, sched, batch, next, slots, wg, workers,
              tick, cancelled, enqResult, cacheVars>>

\* amounts: the positive multiples of 1/48 up to MaxAmount48 / 48
Amounts == {Rat(k, 48) : k \in 1..MaxAmount48}

FirstTokens ==
    {<<"1">>, <<"2">>, <<"1", "/", "2">>, <<"1", "U+00BD">>, <<"1", "/", "0">>,
     <<"1", "-", "1", "/", "2">>, <<"c">>}

SecondTokens ==
    {<<"1", "/", "2">>, <<".", "5">>, <<"U+00BD">>, <<"2">>, <<"2", "-", "c">>,
     <<"U+2150">>, <<"(", "1", "/", "4", ")">>, <<"1", "/", "0">>, <<"c">>, <<"-">>}

Rests == {<<>>, <<"c">>, <<"3", " ", "c">>}

\* ingredient lines: two tokens and what follows them
Lines ==
    {a \o <<" ">> \o b \o (IF r = <<>> THEN <<>> ELSE <<" ">> \o r) :
        a \in FirstTokens, b \in SecondTokens, r \in Rests}

InitAmount ==
    /\ Quiescent
    /\ \/ amount \in Amounts /\ text = Idle
       \/ amount = Idle /\ \E line \in Lines : text = [pc |-> "given", s |-> line]
    /\ parsed = Idle
    /\ candidate = Idle
    /\ complete = Idle
    /\ mem = Idle
    /\ entry = Idle
    /\ served = Idle
    /\ nav = Idle

FormatStep ==
    /\ amount # Idle
    /\ text = Idle
    /\ text' = [pc |-> "formatted", s |-> formatAmount(amount)]
    /\ UNCHANGED <<progVars, main, auth, amount, parsed, candidate, complete, mem, entry, served, nav>>

ParseStep ==
    /\ text # Idle
    /\ parsed = Idle
    /\ parsed' = [pc |-> "parsed", r |-> parseIngredientString(text.s)]
    /\ UNCHANGED <<progVars, main, auth, amount, text, candidate, complete, mem, entry, served, nav>>

NextAmount == FormatStep \/ ParseStep

SpecAmount == InitAmount /\ [][NextAmount]_vars

\* a multiple of 1/16
IsSixteenth(v) == 16 % v.d = 0

ProperFractions ==
    {<<nn, dd>> \in (1..15) \X {2, 3, 4, 8, 16} : nn < dd /\ GCD(nn, dd) = 1}

\* the candidates of the search: k/D for D among the denominators
Candidates == {Rat(k, denominators[i]) : k \in 0..16, i \in 1..Len(denominators)}

FractionPart(v) == RSub(v, FromInt(Floor(v)))

IsMinimal(v, nn, dd) ==
    \A c \in Candidates :
        ~RLess(RAbs(RSub(FractionPart(v), c)), RAbs(RSub(FractionPart(v), Rat(nn, dd))))

\* C27: for every positive value the text of formatAmount is a bare integer, a
\* proper fraction N/D or W N/D with 0 < N < D, N/D in lowest terms and D in
\* {2,3,4,8,16}, and the fraction minimizes the absolute error to the
\* fractional part of the value.
ThreeForms ==
    (amount # Idle /\ text # Idle) =>
        \/ AllDigits(text.s)
        \/ \E f \in ProperFractions :
              /\ \/ text.s = Itoa(f[1]) \o <<"/">> \o Itoa(f[2])
                 \/ /\ Floor(amount) > 0
                    /\ text.s = Itoa(Floor(amount)) \o <<" ">> \o Itoa(f[1]) \o <<"/">> \o Itoa(f[2])
              /\ IsMinimal(amount, f[1], f[2])

\* the run of leading numeric tokens of the line in text
RunOf(line) == AmountRun(Fields(TrimSpace(line)), 1, <<>>)

Combinable(token) ==
    /\ parseSingleToken(token).ok
    /\ Contains(token, "/") \/ Contains(token, ".") \/ isUnicodeFraction(token[1])

\* C28: when the leading numeric run of a line has two tokens, the value is
\* first + second if the second token is a /-fraction, a decimal or a glyph;
\* otherwise the value and the amount text are the first token only and every
\* token after the first is part of the remainder.
TwoTokenRun ==
    (/\ amount = Idle
     /\ parsed # Idle
     /\ Len(RunOf(text.s).tokens) = 2
     /\ parseSingleToken(RunOf(text.s).tokens[1]).ok) =>
        LET run == RunOf(text.s)
            first == parseSingleToken(run.tokens[1]).value
            second == parseSingleToken(run.tokens[2]).value
        IN IF Combinable(run.tokens[2])
           THEN parsed.r.value = RAdd(first, second)
           ELSE /\ parsed.r.value = first
                /\ parsed.r.amountText = run.tokens[1]
                /\ parsed.r.remainder = JoinFrom(Fields(TrimSpace(text.s)), 2)

(***************************************************************************)
(* recipeIsComplete applied to candidate recipes                           *)
(***************************************************************************)
\* IngredientDetail (models.go): nil amounts are Absent, texts are rune sequences
IngredientDetail(baseValue, baseText, value, amountText, unit, description, display) ==
    [baseAmountValue |-> baseValue, baseAmountText |-> baseText,
     amountValue |-> value, amountText |-> amountText, unit |-> unit,
     description |-> description, display |-> display]

Water == <<"w", "a", "t", "e", "r">>

Cup == <<"c", "u", "p">>

CandidateDetails ==
    { <<>>,
      <<IngredientDetail(Absent, <<>>, Absent, <<>>, <<>>, <<>>, <<>>)>>,
      <<IngredientDetail(Absent, <<>>, Absent, <<>>, Cup, <<" ">>, Cup)>>,
      <<IngredientDetail(Absent, <<>>, Absent, <<>>, <<>>, Water, <<>>)>>,
      <<IngredientDetail(Absent, <<>>, Absent, <<"1">>, <<>>, <<>>, <<>>)>>,
      <<IngredientDetail(Absent, <<>>, Rat(1, 2), <<>>, <<>>, <<>>, <<>>)>>,
      <<IngredientDetail(Absent, <<>>, Absent, <<" ">>, <<>>, <<>>, <<>>),
        IngredientDetail(Absent, <<>>, Absent, <<>>, <<>>, Water, <<>>)>> }

CandidateRecipes ==
    { [Recipe(title, "", "", "", ingredients, instructions)
          EXCEPT !.parsedIngredients = details] :
        title \in {"", " ", "Soup"},
        ingredients \in {<<>>, <<" ">>, <<"1 cup water">>, <<"", "1 cup water">>},
        details \in CandidateDetails,
        instructions \in {<<>>, <<" ">>, <<"boil">>, <<"", "boil">>} }

InitComplete ==
    /\ Quiescent
    /\ candidate \in CandidateRecipes
    /\ complete = Idle
    /\ amount = Idle
    /\ text = Idle
    /\ parsed = Idle
    /\ mem = Idle
    /\ entry = Idle
    /\ served = Idle
    /\ nav = Idle

CheckComplete ==
    /\ complete = Idle
    /\ complete' = [pc |-> "returned", result |-> recipeIsComplete(candidate)]
    /\ UNCHANGED <<progVars, main, auth, amount, text, parsed, candidate, mem, entry, served, nav>>

NextComplete == CheckComplete

SpecComplete == InitComplete /\ [][NextComplete]_vars

\* C29: recipeIsComplete is true exactly when the trimmed title is non-empty,
\* some ingredient entry (a raw line, or a structured entry by description,
\* amount text or amount value) is non-blank and some instruction step is
\* non-blank; with no ingredient entry at all the recipe is incomplete; the
\* call changes neither the recipe nor the service state.
CompleteExactly ==
    [][complete' # complete =>
        /\ complete'.result =
              (/\ candidate.title \notin {"", " "}
               /\ \/ \E i \in 1..Len(candidate.ingredients) :
                        candidate.ingredients[i] \notin {"", " "}
                  \/ \E i \in 1..Len(candidate.parsedIngredients) :
                        LET d == candidate.parsedIngredients[i]
                        IN \/ TrimSpace(d.description) # <<>>
                           \/ TrimSpace(d.amountText) # <<>>
                           \/ d.amountValue # Absent
               /\ \E i \in 1..Len(candidate.instructions) :
                        candidate.instructions[i] \notin {"", " "})
        /\ (Len(candidate.ingredients) = 0 /\ Len(candidate.parsedIngredients) = 0)
              => ~complete'.result
        /\ candidate' = candidate
        /\ UNCHANGED progVars]_vars

CompleteExactlyWitness ==
    /\ complete # Idle
    /\ complete.result
    /\ candidate.ingredients = <<" ">>
    /\ Len(candidate.parsedIngredients) = 2
    /\ candidate.instructions = <<"", "boil">>

(***************************************************************************)
(* Serving scaler: cloneRecipe, scaleRecipeFromQuery, scaleParsedIngredients*)
(* and ensureRecipeDisplays (auth.go lines 908-1024)                        *)
(***************************************************************************)
\* composeDisplayWithUnit: the non-empty trimmed parts joined by one space
composeDisplayWithUnit(amountText, unit, description) ==
    LET parts == SelectSeq(<<TrimSpace(amountText), TrimSpace(unit), TrimSpace(description)>>,
                           LAMBDA part : part # <<>>)
    IN TrimSpace(JoinFrom(parts, 1))

\* the fields of a Recipe that the scaler reads or writes, by value
ScaledFields(servings, originalServings, ingredients, parsedIngredients) ==
    [servings |-> servings, originalServings |-> originalServings,
     ingredients |-> ingredients, parsedIngredients |-> parsedIngredients]

\* the body of the loop of ensureRecipeDisplays
EnsureDisplay(detail) ==
    IF TrimSpace(detail.display) # <<>> THEN detail
    ELSE IF detail.amountText # <<>>
         THEN [detail EXCEPT !.display =
                  composeDisplayWithUnit(detail.amountText, detail.unit, detail.description)]
    ELSE IF detail.baseAmountText # <<>>
         THEN [detail EXCEPT !.display =
                  composeDisplayWithUnit(detail.baseAmountText, detail.unit, detail.description)]
    ELSE [detail EXCEPT !.display = TrimSpace(detail.description)]

DisplaysOf(details) == [i \in 1..Len(details) |-> TrimSpace(details[i].display)]

\* the recipe with its entries replaced and its ingredient lines made from them
WithEntries(recipe, details) ==
    [recipe EXCEPT !.parsedIngredients = details, !.ingredients = DisplaysOf(details)]

ensureRecipeDisplays(recipe) ==
    IF Len(recipe.parsedIngredients) = 0 THEN recipe
    ELSE WithEntries(recipe, [i \in 1..Len(recipe.parsedIngredients) |->
                                EnsureDisplay(recipe.parsedIngredients[i])])

\* the entry with a new amount value, its text and the display made of it
WithAmount(detail, scaledAmount, amountText) ==
    [detail EXCEPT !.amountValue = scaledAmount, !.amountText = amountText,
                   !.display = composeDisplayWithUnit(amountText, detail.unit,
                                                      detail.description)]

\* Mutant of ScaleWithBase: the amount text is not formatted again.
ScaleWithBaseKeepText(detail, scale) ==
    [detail EXCEPT !.amountValue = RMul(detail.baseAmountValue, scale)]

\* scaleParsedIngredients lines 979-984: the entry has a base amount value
ScaleWithBase(detail, scale) ==
    WithAmount(detail, RMul(detail.baseAmountValue, scale),
               formatAmount(RMul(detail.baseAmountValue, scale)))

\* the entry without amount value, with the given text and a display if it had none
WithText(detail, amountText) ==
    [detail EXCEPT !.amountValue = Absent, !.amountText = amountText,
                   !.display = IF TrimSpace(detail.display) = <<>>
                               THEN composeDisplayWithUnit(amountText, detail.unit,
                                                           detail.description)
                               ELSE detail.display]

\* Mutant of KeepUnscaled: the current amount value is left in place.
KeepUnscaledValue(detail) ==
    [detail EXCEPT !.amountText = IF detail.baseAmountText # <<>>
                                  THEN detail.baseAmountText ELSE detail.amountText]

\* scaleParsedIngredients lines 986-992: the entry has no base amount value
KeepUnscaled(detail) ==
    WithText(detail, IF detail.baseAmountText # <<>> THEN detail.baseAmountText
                     ELSE detail.amountText)

\* Mutant of ScaleDetail: the scaled amount becomes the base of the entry.
ScaleDetailRebasing(detail, scale) ==
    IF detail.baseAmountValue # Absent
    THEN [ScaleWithBase(detail, scale) EXCEPT
             !.baseAmountValue = RMul(detail.baseAmountValue, scale),
             !.baseAmountText = formatAmount(RMul(detail.baseAmountValue, scale))]
    ELSE KeepUnscaled(detail)

\* the body of the loop of scaleParsedIngredients
ScaleDetail(detail, scale) ==
    IF detail.baseAmountValue # Absent THEN ScaleWithBase(detail, scale)
    ELSE KeepUnscaled(detail)

scaleParsedIngredients(recipe, scale) ==
    IF Len(recipe.parsedIngredients) = 0 THEN ensureRecipeDisplays(recipe)
    ELSE WithEntries(recipe,
                     [i \in 1..Len(recipe.parsedIngredients) |->
                         ScaleDetail(recipe.parsedIngredients[i],
                                     IF scale.n <= 0 THEN FromInt(1) ELSE scale)])

\* c.Query(name) parsed: ParseFloat of the trimmed text, failing on ""
QueryFloat(t) == IF ~HasText(t) THEN Failed ELSE ParseFloat(TrimSpace(t))

\* the three outcomes of the resolution
FromTarget(target, original) ==
    [scale |-> RDiv(target, FromInt(original)), scaled |-> TRUE, servings |-> Round(target)]

FromFactor(factor, original, servings) ==
    [scale |-> factor, scaled |-> TRUE,
     servings |-> IF original > 0 THEN Round(RMul(FromInt(original), factor)) ELSE servings]

Unscaled(servings) == [scale |-> FromInt(1), scaled |-> FALSE, servings |-> servings]

\* scaleRecipeFromQuery lines 938-959 on the parsed parameters
Resolve(target, factor, original, servings) ==
    IF target.ok /\ target.value.n > 0 /\ original > 0
    THEN FromTarget(target.value, original)
    ELSE IF factor.ok /\ factor.value.n > 0
    THEN FromFactor(factor.value, original, servings)
    ELSE Unscaled(servings)

\* the resolution with the explicit factor looked at first
ResolveFactorFirst(target, factor, original, servings) ==
    IF factor.ok /\ factor.value.n > 0
    THEN FromFactor(factor.value, original, servings)
    ELSE IF target.ok /\ target.value.n > 0 /\ original > 0
    THEN FromTarget(target.value, original)
    ELSE Unscaled(servings)

\* Mutant of ResolveScale: an explicit factor wins over a target serving count.
ResolveScaleFactorFirst(query, original, servings) ==
    ResolveFactorFirst(QueryFloat(query.servings), QueryFloat(query.scale), original, servings)

\* scaleRecipeFromQuery lines 938-959: scale, scaled and recipe.Servings
ResolveScale(query, original, servings) ==
    Resolve(QueryFloat(query.servings), QueryFloat(query.scale), original, servings)

\* scaleRecipeFromQuery lines 961-969: scale the entries or only ensure displays
ApplyScale(recipe, res) ==
    [scale |-> res.scale, scaled |-> res.scaled,
     recipe |-> IF res.scaled /\ res.scale.n > 0
                THEN scaleParsedIngredients([recipe EXCEPT !.servings = res.servings],
                                            res.scale)
                ELSE ensureRecipeDisplays([recipe EXCEPT !.servings = res.servings])]

\* scaleRecipeFromQuery from line 936 on, original being the baseline
ScaleFrom(query, recipe, original) ==
    ApplyScale(ensureRecipeDisplays([recipe EXCEPT !.originalServings = original]),
               ResolveScale(query, original, recipe.servings))

\* scaleRecipeFromQuery(c, recipe): the recipe after the call and the scale used
scaleRecipeFromQuery(query, recipe) ==
    ScaleFrom(query, recipe,
              IF recipe.originalServings = 0 THEN recipe.servings
              ELSE recipe.originalServings)

\* The heap: mem is the sequence of the arrays allocated so far, a slice is the
\* index of its array and 0 is the nil slice. A *float64 is modelled by the
\* value it points to: every assignment to such a field (floatPtr, nil) replaces
\* the pointer and nothing writes through one.
ArrayOf(heap, slice) == IF slice = 0 THEN <<>> ELSE heap[slice]

\* the value of a Recipe whose slices point into the heap
Deref(heap, recipe) ==
    ScaledFields(recipe.servings, recipe.originalServings,
                 ArrayOf(heap, recipe.ingredients), ArrayOf(heap, recipe.parsedIngredients))

\* a slice holding the elements of array: the heap after it and the slice
Alloc(heap, array) ==
    IF Len(array) = 0 THEN [heap |-> heap, slice |-> 0]
    ELSE [heap |-> Append(heap, array), slice |-> Len(heap) + 1]

\* recipeRepo.GetRecipe: toRecipe unmarshals the row into fresh slices
\* the struct over two freshly allocated slices
OverSlices(recipe, lines, entries) ==
    [heap |-> entries.heap,
     recipe |-> ScaledFields(recipe.servings, recipe.originalServings,
                             lines.slice, entries.slice)]

\* two slices allocated one after the other
TwoSlices(recipe, lines, details) ==
    OverSlices(recipe, lines, Alloc(lines.heap, details))

LoadRecipe(heap, stored) ==
    TwoSlices(stored, Alloc(heap, stored.ingredients), stored.parsedIngredients)

\* Mutant of cloneRecipe: the clone shares the slices of the recipe.
cloneRecipeShallow(heap, recipe) == [heap |-> heap, recipe |-> recipe]

\* cloneRecipe: a copy of the struct with copies of both slices
cloneRecipe(heap, recipe) ==
    TwoSlices(recipe, Alloc(heap, ArrayOf(heap, recipe.ingredients)),
              ArrayOf(heap, recipe.parsedIngredients))

\* scaleRecipeFromQuery(c, &recipe) on the heap: the entries of
\* recipe.ParsedIngredients are written in place, recipe.Ingredients is a new
\* slice (make) when there are entries, the struct fields are those of recipe.
WriteBack(recipe, out, lines) ==
    [heap |-> lines.heap, scale |-> out.scale, scaled |-> out.scaled,
     recipe |-> ScaledFields(out.recipe.servings, out.recipe.originalServings,
                             lines.slice, recipe.parsedIngredients)]

WriteScaled(heap, recipe, out) ==
    WriteBack(recipe, out,
              IF recipe.parsedIngredients = 0
              THEN [heap |-> heap, slice |-> recipe.ingredients]
              ELSE Alloc([heap EXCEPT ![recipe.parsedIngredients] =
                                          out.recipe.parsedIngredients],
                         out.recipe.ingredients))

ScaleInPlace(heap, recipe, query) ==
    WriteScaled(heap, recipe, scaleRecipeFromQuery(query, Deref(heap, recipe)))

Half == <<"1", "/", "2">>

Pinch == <<"p", "i", "n", "c", "h">>

\* entries as convertIngredientModel builds them (base fields set)
HalfWater ==
    IngredientDetail(Rat(1, 2), Half, Rat(1, 2), Half, <<>>, Water, Half \o <<" ">> \o Water)

ThreeQuarters ==
    IngredientDetail(Rat(3, 4), <<"3", "/", "4">>, Rat(3, 4), <<"3", "/", "4">>, Cup, Water,
                     <<"3", "/", "4", " ">> \o Cup \o <<" ">> \o Water)

PinchOf == IngredientDetail(Absent, Pinch, Absent, Pinch, <<>>, Water, Pinch \o <<" ">> \o Water)

\* entries as toRecipe unmarshals them (base fields are not in the JSON)
TwoCups ==
    IngredientDetail(Absent, <<>>, Rat(2, 1), <<"2">>, Cup, Water,
                     <<"2", " ">> \o Cup \o <<" ">> \o Water)

OneNoDisplay == IngredientDetail(Absent, <<>>, Absent, <<"1">>, <<>>, Water, <<>>)

StoredEntries ==
    {<<>>, <<HalfWater, PinchOf>>, <<ThreeQuarters>>, <<TwoCups, OneNoDisplay>>}

\* the stored recipes: original servings are 0 (toRecipe) or the servings
StoredRecipes ==
    {ScaledFields(sv[1], sv[2], IF entries = <<>> THEN <<Water>> ELSE <<>>, entries) :
        sv \in {<<2, 0>>, <<2, 2>>, <<3, 3>>, <<0, 0>>}, entries \in StoredEntries}

Queries ==
    [servings : {<<>>, <<"3">>, <<"2", ".", "5">>, <<"0">>},
     scale : {<<>>, <<"1">>, <<"2">>, <<".", "5">>}]

ReadsDone == IF served = Idle THEN 0 ELSE served.reads

InitScale ==
    /\ Quiescent
    /\ candidate \in StoredRecipes
    /\ mem = <<>>
    /\ entry = Idle
    /\ served = Idle
    /\ complete = Idle
    /\ amount = Idle
    /\ text = Idle
    /\ parsed = Idle
    /\ nav = Idle

\* c.JSON(http.StatusOK, clone)
Respond(query, out) ==
    /\ mem' = out.heap
    /\ served' = [pc |-> "served", query |-> query, scale |-> out.scale,
                  scaled |-> out.scaled, response |-> Deref(out.heap, out.recipe),
                  reads |-> ReadsDone + 1]

\* clone := cloneRecipe(recipe); scaleRecipeFromQuery(c, &clone)
ScaleClone(query, clone) == Respond(query, ScaleInPlace(clone.heap, clone.recipe, query))

\* the recipe found in, or just put into, the cache is cloned and served
ServeFrom(loaded, query) ==
    /\ entry' = loaded.recipe
    /\ ScaleClone(query, cloneRecipe(loaded.heap, loaded.recipe))

\* handleGetRecipe: cache hit or load and Set, then clone, scale and respond
ServeScaled(query) ==
    /\ ReadsDone < MaxReads
    /\ ServeFrom(IF entry = Idle THEN LoadRecipe(mem, candidate)
                 ELSE [heap |-> mem, recipe |-> entry], query)
    /\ UNCHANGED <<progVars, main, auth, amount, text, parsed, candidate, complete, nav>>

\* the cache entry expires (30 minutes) and the next read loads the recipe again
ExpireEntry ==
    /\ entry # Idle
    /\ entry' = Idle
    /\ UNCHANGED <<progVars, main, auth, amount, text, parsed, candidate, complete, mem, served, nav>>

NextScale ==
    \/ \E query \in Queries : ServeScaled(query)
    \/ ExpireEntry

SpecScale == InitScale /\ [][NextScale]_vars

StoredEntry(i) == candidate.parsedIngredients[i]

ServedEntry(i) == served.response.parsedIngredients[i]

EntryIds == 1..Len(candidate.parsedIngredients)

\* C21: after scaling with a positive factor f, each entry that has a base
\* amount value has current value = base x f (twice the base for f = 2), amount
\* text = formatAmount(current value) and a display composed of amount text,
\* unit and description.
ScalingLinear ==
    (served # Idle /\ served.scaled) =>
        \A i \in EntryIds :
            StoredEntry(i).baseAmountValue # Absent =>
                /\ ServedEntry(i).amountValue =
                      RMul(StoredEntry(i).baseAmountValue, served.scale)
                /\ (served.query = [servings |-> <<>>, scale |-> <<"2">>]) =>
                      ServedEntry(i).amountValue =
                          RAdd(StoredEntry(i).baseAmountValue, StoredEntry(i).baseAmountValue)
                /\ ServedEntry(i).amountText = formatAmount(ServedEntry(i).amountValue)
                /\ ServedEntry(i).display =
                      composeDisplayWithUnit(ServedEntry(i).amountText, ServedEntry(i).unit,
                                             ServedEntry(i).description)

ScalingLinearWitness ==
    /\ served # Idle
    /\ served.query = [servings |-> <<>>, scale |-> <<"2">>]
    /\ candidate.parsedIngredients = <<ThreeQuarters>>
    /\ served.response.parsedIngredients[1].amountValue = Rat(3, 2)
    /\ served.response.ingredients =
          <<(<<"1", " ", "1", "/", "2", " ">> \o Cup \o <<" ">> \o Water)>>

\* C22: scaling with factor 1 leaves every current amount value equal to the
\* base amount value, scaling the result with factor 1 again changes nothing,
\* and no scaling changes a base amount value or a base amount text.
ScaleOneIdempotent ==
    served # Idle =>
        /\ \A i \in EntryIds :
              /\ ServedEntry(i).baseAmountValue = StoredEntry(i).baseAmountValue
              /\ ServedEntry(i).baseAmountText = StoredEntry(i).baseAmountText
        /\ (served.scaled /\ served.scale = FromInt(1)) =>
              /\ \A i \in EntryIds :
                    ServedEntry(i).amountValue = ServedEntry(i).baseAmountValue
              /\ scaleRecipeFromQuery(served.query, served.response).recipe = served.response

ScaleOneIdempotentWitness ==
    /\ served # Idle
    /\ served.scaled
    /\ served.scale = FromInt(1)
    /\ candidate.parsedIngredients = <<HalfWater, PinchOf>>
    /\ served.response.parsedIngredients[1].amountValue = Rat(1, 2)

\* C23: the response of a scaled read is the scaling of the stored recipe by
\* the parameters of the request, whatever was read before, and the cached
\* recipe (servings, original servings, amounts, displays) stays the stored one.
RelativeToOriginal ==
    /\ entry # Idle => Deref(mem, entry) = candidate
    /\ served # Idle =>
          served.response = scaleRecipeFromQuery(served.query, candidate).recipe

\* a second read at half the amounts after a read at twice the amounts
RelativeToOriginalWitness ==
    /\ served # Idle
    /\ served.reads = 2
    /\ entry # Idle
    /\ candidate.parsedIngredients = <<ThreeQuarters>>
    /\ \E a \in 1..Len(mem) :
          mem[a] = <<ScaleDetail(ThreeQuarters, FromInt(2))>>
    /\ served.response.parsedIngredients[1].amountText = <<"3", "/", "8">>
    /\ entry.servings = candidate.servings

Baseline ==
    IF candidate.originalServings = 0 THEN candidate.servings
    ELSE candidate.originalServings

\* C24 as stated: a target serving count that is given (a number) with a
\* positive baseline sets factor = target/baseline and servings = round(target)
\* and an explicit factor is ignored; otherwise an explicit positive factor
\* sets servings = round(baseline x factor); otherwise the factor is 1 and
\* servings is unchanged.
ServingsResolvedAnyTarget ==
    served # Idle =>
        LET target == QueryFloat(served.query.servings)
            factor == QueryFloat(served.query.scale)
        IN IF target.ok /\ Baseline > 0
           THEN /\ served.scale = RDiv(target.value, FromInt(Baseline))
                /\ served.response.servings = Round(target.value)
           ELSE IF factor.ok /\ factor.value.n > 0
           THEN /\ served.scale = factor.value
                /\ served.response.servings = Round(RMul(FromInt(Baseline), factor.value))
           ELSE /\ served.scale = FromInt(1)
                /\ served.response.servings = candidate.servings

\* C24, amended: the same with a target serving count that is positive; a
\* target that is zero, negative or not a number is treated as not given.
ServingsResolved ==
    served # Idle =>
        LET target == QueryFloat(served.query.servings)
            factor == QueryFloat(served.query.scale)
        IN IF target.ok /\ target.value.n > 0 /\ Baseline > 0
           THEN /\ served.scale = RDiv(target.value, FromInt(Baseline))
                /\ served.response.servings = Round(target.value)
           ELSE IF factor.ok /\ factor.value.n > 0
           THEN /\ served.scale = factor.value
                /\ served.response.servings = Round(RMul(FromInt(Baseline), factor.value))
           ELSE /\ served.scale = FromInt(1)
                /\ ~served.scaled
                /\ served.response.servings = candidate.servings

ServingsResolvedWitness ==
    /\ served # Idle
    /\ served.query = [servings |-> <<"2", ".", "5">>, scale |-> <<"2">>]
    /\ candidate.servings = 2
    /\ candidate.originalServings = 0
    /\ served.scale = Rat(5, 4)
    /\ served.response.servings = 3

\* C25 as stated: an entry without a base amount value has, after any
\* scaling, no current amount value and its base amount text as amount text.
UnscaledAtBaseText ==
    (served # Idle /\ served.scaled) =>
        \A i \in EntryIds :
            StoredEntry(i).baseAmountValue = Absent =>
                /\ ServedEntry(i).amountValue = Absent
                /\ ServedEntry(i).amountText = StoredEntry(i).baseAmountText

\* C25, amended: an entry without a base amount value has, after any scaling,
\* no current amount value; its amount text is its base amount text when that
\* is not empty and is otherwise the amount text it had.
UnscaledKeepsText ==
    (served # Idle /\ served.scaled) =>
        \A i \in EntryIds :
            StoredEntry(i).baseAmountValue = Absent =>
                /\ ServedEntry(i).amountValue = Absent
                /\ ServedEntry(i).amountText =
                      IF StoredEntry(i).baseAmountText # <<>>
                      THEN StoredEntry(i).baseAmountText
                      ELSE StoredEntry(i).amountText

UnscaledKeepsTextWitness ==
    /\ served # Idle
    /\ served.scaled
    /\ served.scale = FromInt(2)
    /\ candidate.parsedIngredients = <<TwoCups, OneNoDisplay>>
    /\ served.response.parsedIngredients[1].amountValue = Absent
    /\ served.response.parsedIngredients[1].amountText = <<"2">>

(***************************************************************************)
(* getRecipe: browser navigation with one retry, then the HTTP fallback    *)
(* (the getRecipe that has the retry loop, lines 203-266 of its file)      *)
(***************************************************************************)
NavURLs == {"http://a/pea-soup", "http://b/pea_soup", "http://c/\n"}

\* http.NewRequestWithContext fails on a URL it cannot parse
BadRequestURL(url) == url = "http://c/\n"

NoErr == [kind |-> "nil"]

\* the recipe getRecipe returns: Recipe{} with an error
EmptyRecipe == [title |-> "", image |-> "", originalURL |-> ""]

NavState(pc, url, attempt, page, opened, navErr, content, events, err) ==
    [pc |-> pc, url |-> url, attempt |-> attempt, page |-> page, opened |-> opened,
     navErr |-> navErr, content |-> content, events |-> events, err |-> err,
     extracted |-> EmptyRecipe, storedImage |-> "", recipe |-> EmptyRecipe]

Returned3(n, err) == [n EXCEPT !.pc = "returned", !.err = err]

\* a panic of a Must call outside rod.Try leaves getRecipe through its defers
Panicked(n) == [n EXCEPT !.pc = "panicked"]

\* after the navigation loop: the fallback runs when content is blank
AfterLoop(n) == [n EXCEPT !.pc = IF Blank(n.content) THEN "fallback" ELSE "parse"]

InitNav ==
    /\ Quiescent
    /\ \E url \in NavURLs :
          nav = NavState("start", url, 1, 0, 0, NoErr, "", <<>>, NoErr)
    /\ candidate = Idle
    /\ complete = Idle
    /\ amount = Idle
    /\ text = Idle
    /\ parsed = Idle
    /\ mem = Idle
    /\ entry = Idle
    /\ served = Idle

NavFrame == UNCHANGED <<progVars, main, auth, amount, text, parsed, candidate, complete, mem, entry, served>>

\* findChromiumBinary, launch.Launch, browser.Connect, browser.MustPage
LaunchBrowser ==
    /\ nav.pc = "start"
    /\ \/ \E kind \in {"no binary", "launch browser", "connect browser"} :
             nav' = Returned3(nav, [kind |-> kind])
       \/ nav' = Panicked(nav)
       \/ nav' = [nav EXCEPT !.pc = "navigate", !.page = 1, !.opened = 1]
    /\ NavFrame

\* Mutant of FreshPage: the retry navigates the page of the failed attempt.
SamePage(n) == n.page

\* browser.MustPage().Timeout(60 * time.Second) after a failed attempt
FreshPage(n) == n.opened + 1

\* one iteration of the loop: for attempt := 1; attempt <= 2; attempt++
NavigateAttempt ==
    /\ nav.pc = "navigate"
    /\ nav.attempt <= MaxNavAttempts
    /\ \/ \* rod.Try returns nil; page.MustHTML returns the outer HTML or panics
          LET n == [nav EXCEPT !.events = Append(@, [op |-> "navigate", page |-> nav.page,
                                                      ok |-> TRUE])]
          IN \/ nav' = AfterLoop([n EXCEPT !.content = "<html>"])
             \/ nav' = Panicked(n)
       \/ \* rod.Try returns the error; a fresh page is opened (MustPage may panic)
          \E kind \in {"navigation timeout", "execution context was destroyed"} :
             LET n == [nav EXCEPT !.events = Append(@, [op |-> "navigate", page |-> nav.page,
                                                         ok |-> FALSE]),
                                  !.navErr = [kind |-> kind]]
                 m == [n EXCEPT !.page = FreshPage(nav), !.opened = nav.opened + 1,
                                !.attempt = nav.attempt + 1]
             IN \/ nav' = IF m.attempt <= MaxNavAttempts THEN m ELSE AfterLoop(m)
                \/ nav' = Panicked(n)
    /\ NavFrame

\* the direct HTTP GET of the page
HTTPFallback ==
    /\ nav.pc = "fallback"
    /\ IF BadRequestURL(nav.url)
       THEN nav' = Returned3(nav, [kind |-> "build http request"])
       ELSE \E outcome \in {"do failed", "status", "read body", "ok", "empty"} :
               LET n == [nav EXCEPT !.events = Append(@, [op |-> "get", page |-> 0,
                                                           ok |-> outcome \in {"ok", "empty"}])]
               IN nav' =
                   CASE outcome = "do failed" ->
                            Returned3(n, [kind |-> "composite", nav |-> nav.navErr,
                                          http |-> "http fallback failed"])
                     [] outcome = "status" ->
                            Returned3(n, [kind |-> "composite", nav |-> nav.navErr,
                                          http |-> "http fallback status"])
                     [] outcome = "read body" ->
                            Returned3(n, [kind |-> "http fallback read body"])
                     [] outcome = "ok" -> [n EXCEPT !.pc = "parse", !.content = "<html>"]
                     [] OTHER -> [n EXCEPT !.pc = "parse", !.content = ""]
    /\ NavFrame

\* the image the AI response may carry (featuredImage), copied into the recipe
FeaturedImages == {"", "http://a/featured.jpg"}

\* goquery, the AI prompt and the copy of its response
ExtractFromContent ==
    /\ nav.pc = "parse"
    /\ \/ \E kind \in {"document", "ai recipe prompt failed", "ai nil response"} :
             nav' = Returned3(nav, [kind |-> kind])
       \/ \E img \in FeaturedImages :
             LET r == [title |-> "Pea Soup", image |-> img, originalURL |-> ""]
             IN nav' = [nav EXCEPT !.pc = "metadata", !.extracted = r, !.recipe = r]
    /\ NavFrame

\* extractImageURL: the first meta or link image of the document, else the
\* favicon of the page's host, else "" when the page URL does not parse
MetadataImages(url) ==
    IF BadRequestURL(url) THEN {"", "http://a/og.png"}
    ELSE {"http://a/og.png", "http://a/favicon.ico"}

StoreImageOutcomes == {"download image", "unexpected HTTP status", "read image",
                  "initialize S3 client", "upload image", "ok"}

\* storeImageFromURL(imageURL, slug): the public URL of the uploaded copy
storeImageFromURL(imageURL, outcome) ==
    IF Blank(imageURL) THEN [url |-> "", err |-> "image url is empty"]
    ELSE IF outcome = "ok" THEN [url |-> "https://cookingimage.bronson.dev/images/pea-soup",
                                 err |-> "nil"]
    ELSE [url |-> "", err |-> outcome]

StoreEvent(source, res) == [op |-> "store", source |-> source, ok |-> res.err = "nil", page |-> 0]

\* storedImage after a call of storeImageFromURL: err != nil leaves it as it was
StoredAfter(stored, res) == IF res.err # "nil" THEN stored ELSE res.url

\* metadataImage := extractImageURL(doc, pageURL); stored when it is not ""
StoreMetadataImage ==
    /\ nav.pc = "metadata"
    /\ \E metadataImage \in MetadataImages(nav.url), outcome \in StoreImageOutcomes :
          LET res == storeImageFromURL(metadataImage, outcome)
          IN nav' = IF metadataImage # ""
                    THEN [nav EXCEPT !.pc = "generate",
                                     !.storedImage = StoredAfter(nav.storedImage, res),
                                     !.events = Append(@, StoreEvent("metadata", res))]
                    ELSE [nav EXCEPT !.pc = "generate"]
    /\ NavFrame

\* ai.GenerateImage: an error, or the URL of the first image (which may be "")
GenerateOutcomes == {"failed to generate image", "no image URL returned", "",
                     "http://openai/generated.png"}

GenerateFailed(outcome) == outcome \in {"failed to generate image", "no image URL returned"}

\* Mutant of NeedsGeneratedImage: the image service is called for every recipe.
AlwaysGenerated(n) == TRUE

\* if storedImage == ""
NeedsGeneratedImage(n) == n.storedImage = ""

GenerateEvent(outcome) == [op |-> "generate", ok |-> ~GenerateFailed(outcome), page |-> 0]

\* the generated image: ai.GenerateImage, then storeImageFromURL of its URL
StoreGeneratedImage ==
    /\ nav.pc = "generate"
    /\ IF NeedsGeneratedImage(nav)
       THEN \E generated \in GenerateOutcomes, outcome \in StoreImageOutcomes :
               LET res == storeImageFromURL(generated, outcome)
                   n == [nav EXCEPT !.pc = "assign",
                                    !.events = Append(@, GenerateEvent(generated))]
               IN nav' = IF GenerateFailed(generated) THEN n
                         ELSE [n EXCEPT !.storedImage = StoredAfter(nav.storedImage, res),
                                        !.events = Append(@, StoreEvent("generated", res))]
       ELSE nav' = [nav EXCEPT !.pc = "assign"]
    /\ NavFrame

\* if storedImage != "" { responseRecipe.Image = storedImage }
AssignImage(r, stored) == IF stored # "" THEN [r EXCEPT !.image = stored] ELSE r

\* responseRecipe.OriginalURL = pageURL; return responseRecipe, slug, nil
ReturnRecipe ==
    /\ nav.pc = "assign"
    /\ nav' = Returned3([nav EXCEPT !.recipe = [AssignImage(@, nav.storedImage)
                                                  EXCEPT !.originalURL = nav.url]],
                        NoErr)
    /\ NavFrame

NextNav ==
    \/ LaunchBrowser
    \/ NavigateAttempt
    \/ HTTPFallback
    \/ ExtractFromContent
    \/ StoreMetadataImage
    \/ StoreGeneratedImage
    \/ ReturnRecipe

SpecNav == InitNav /\ [][NextNav]_vars

NavEvents == {i \in 1..Len(nav.events) : nav.events[i].op = "navigate"}

GetEvents == {i \in 1..Len(nav.events) : nav.events[i].op = "get"}

\* C30: navigation is tried at most 2 times, each try on a page that was not
\* navigated before; the HTTP GET is issued only after two failed navigation
\* attempts; an error naming the navigation failure and the HTTP failure is
\* returned only when the navigation failed twice and the HTTP GET failed.
NavigationThenFallback ==
    nav # Idle =>
        /\ Cardinality(NavEvents) <= 2
        /\ \A i, j \in NavEvents : i # j => nav.events[i].page # nav.events[j].page
        /\ \A g \in GetEvents :
              /\ Cardinality({i \in NavEvents : i < g /\ ~nav.events[i].ok}) = 2
              /\ \A i \in NavEvents : i < g
        /\ nav.err.kind = "composite" =>
              /\ \E g \in GetEvents : ~nav.events[g].ok
              /\ Cardinality({i \in NavEvents : ~nav.events[i].ok}) = 2
              /\ nav.err.nav # NoErr

NavigationThenFallbackWitness ==
    /\ nav # Idle
    /\ nav.pc = "returned"
    /\ nav.err = [kind |-> "composite", nav |-> [kind |-> "navigation timeout"],
                  http |-> "http fallback status"]
    /\ Len(nav.events) = 3
    /\ nav.events[1].page = 1
    /\ nav.events[2].page = 2

StoreEvents == {i \in 1..Len(nav.events) : nav.events[i].op = "store"}

GenerateEvents == {i \in 1..Len(nav.events) : nav.events[i].op = "generate"}

\* the image resolution of getRecipe has begun
Resolving == nav.pc \in {"metadata", "generate", "assign"} \/ nav.extracted # EmptyRecipe

\* C31: image resolution never fails an extraction: the AI image service is
\* called only when no page-metadata image was stored, and when both the
\* metadata path and the generated path fail, getRecipe still returns the
\* extracted recipe without error and with no image set by the pipeline.
ImageNeverFailsExtraction ==
    (nav # Idle /\ Resolving) =>
        /\ nav.pc # "panicked"
        /\ nav.err = NoErr
        /\ Cardinality(GenerateEvents) <= 1
        /\ \A g \in GenerateEvents : \A i \in StoreEvents : i < g => ~nav.events[i].ok
        /\ nav.pc = "returned" =>
              IF \E i \in StoreEvents : nav.events[i].ok
              THEN nav.recipe = [nav.extracted EXCEPT !.image = nav.storedImage,
                                                      !.originalURL = nav.url]
              ELSE /\ nav.storedImage = ""
                   /\ nav.recipe = [nav.extracted EXCEPT !.originalURL = nav.url]

\* the metadata image and the generated image both failed to be stored
ImageNeverFailsExtractionWitness ==
    /\ nav # Idle
    /\ nav.pc = "returned"
    /\ nav.err = NoErr
    /\ Cardinality(StoreEvents) = 2
    /\ Cardinality(GenerateEvents) = 1
    /\ \A i \in StoreEvents : ~nav.events[i].ok
    /\ nav.recipe = [title |-> "Pea Soup", image |-> "http://a/featured.jpg",
                     originalURL |-> nav.url]

(***************************************************************************)
(* main returns: router.Run has returned, the deferred calls run in the    *)
(* reverse order of their defer statements (cancel, then sqlDB.Close), and *)
(* the process ends with main, whatever its goroutines are doing           *)
(***************************************************************************)
MainAt(pc) == [pc |-> pc]

\* sqlDB.Close() has not been called: the statements of the store are served
DBOpen == main.pc \in {"run", "return", "cancelled"}

InitShutdown ==
    /\ queue = [k \in 1..StoreItems |->
                   NewQueueRow(BacklogPairs[k].user, BacklogPairs[k].url)]
    /\ recipes = <<>>
    /\ handlers = [h \in 1..MaxHandlers |-> IdleHandler]
    /\ sched = "batch"
    /\ batch = <<>>
    /\ next = 1
    /\ slots = 0
    /\ wg = 0
    /\ workers = {}
    /\ tick = "noticker"
    /\ cancelled = FALSE
    /\ enqResult = Returned("none", FALSE)
    /\ recipeCache = {}
    /\ recipesCache = {}
    /\ favorites = {}
    /\ reader = IdleReader
    /\ writer = IdleWriter
    /\ amount = Idle
    /\ text = Idle
    /\ parsed = Idle
    /\ candidate = Idle
    /\ complete = Idle
    /\ mem = Idle
    /\ entry = Idle
    /\ served = Idle
    /\ nav = Idle
    /\ auth = Idle
    /\ main = MainAt("run")

MainFrame == UNCHANGED <<queue, recipes, handlers, sched, batch, next, slots, wg, workers,
                         tick, enqResult, cacheVars, amount, text, parsed, candidate,
                         complete, mem, entry, served, nav, auth>>

\* router.Run(":" + port) returns (the listener failed)
RouterReturns ==
    /\ main.pc = "run"
    /\ main' = MainAt("return")
    /\ UNCHANGED cancelled
    /\ MainFrame

\* defer cancel(): the last defer statement of main runs first
DeferredCancel ==
    /\ main.pc = "return"
    /\ cancelled' = TRUE
    /\ main' = MainAt("cancelled")
    /\ MainFrame

\* defer func() { sqlDB.Close() }(): nothing waits for runQueueProcessor
DeferredClose ==
    /\ main.pc = "cancelled"
    /\ main' = MainAt("closed")
    /\ UNCHANGED cancelled
    /\ MainFrame

\* main has returned: the process ends
Exit ==
    /\ main.pc = "closed"
    /\ main' = MainAt("exited")
    /\ UNCHANGED cancelled
    /\ MainFrame

\* FetchPendingQueue on the closed handle: the error is logged, the batch is over
FetchOnClosed ==
    /\ sched = "batch"
    /\ sched' = "select"
    /\ tick' = IF tick = "noticker" THEN "empty" ELSE tick
    /\ UNCHANGED <<queue, recipes, handlers, batch, next, slots, wg, workers, cancelled,
                   enqResult, cacheVars, fnVars>>

\* MarkQueueItemResult on the closed handle: the UPDATE (or the reload) fails,
\* processQueueItem logs the error and returns
MarkOnClosed(w) ==
    /\ w.pc \in {"mark", "finalize"}
    /\ workers' = Replace(w, [w EXCEPT !.pc = "done"])
    /\ UNCHANGED <<queue, recipes, handlers, sched, batch, next, slots, wg, tick, cancelled,
                   enqResult, cacheVars, fnVars>>

\* the handle is closed and the process has not ended yet
DBClosed == main.pc = "closed"

\* the process runs
Alive == main.pc # "exited"

\* the goroutines of the processor: a statement on the store is served while
\* the handle is open and fails once it is closed
ShutdownScheduler ==
    \/ DBOpen /\ processQueueBatch
    \/ DBClosed /\ FetchOnClosed
    \/ Alive /\ StartItem
    \/ Alive /\ BatchWait
    \/ Alive /\ SelectTick
    \/ Alive /\ SelectDone
    \/ Alive /\ Tick

ShutdownItems ==
    \/ \E w \in workers : Alive /\ ItemStart(w, {DBOpen})
    \/ \E w \in workers : Alive /\ ItemGetRecipe(w, BatchOutcomes(w.url))
    \/ \E w \in workers : Alive /\ ItemSave(w, {DBOpen})
    \/ \E w \in workers : Alive /\ ItemInvalidate(w)
    \/ \E w \in workers : DBOpen /\ ItemMark(w)
    \/ \E w \in workers : DBOpen /\ ItemFinalize(w)
    \/ \E w \in workers : DBClosed /\ MarkOnClosed(w)
    \/ \E w \in workers : Alive /\ ItemReturn(w)

NextShutdown ==
    \/ RouterReturns
    \/ DeferredCancel
    \/ DeferredClose
    \/ Exit
    \/ ShutdownScheduler
    \/ ShutdownItems

SpecShutdown == InitShutdown /\ [][NextShutdown]_vars

\* the positions at which the next step of an item goroutine is a statement on
\* the store: LinkRecipeIfExists, SaveRecipeForUser, MarkQueueItemResult
AtStoreCall(w) ==
    \/ w.pc = "start" /\ w.user # ""
    \/ w.pc \in {"save", "mark", "finalize"}

\* C37 as claimed: shutdown order. The scheduler is stopped before the store
\* is closed: when main has closed the database handle, runQueueProcessor has
\* returned, and from then on no item goroutine makes a call of the store and
\* no batch is fetched, also when a batch is in flight when main returns.
StoppedBeforeClose ==
    /\ [](main.pc = "closed" => sched = "stopped")
    /\ [][main.pc = "closed"
            => /\ \A w \in workers : AtStoreCall(w) => w \in workers'
               /\ sched = "batch" => sched' = "batch"]_vars

(***************************************************************************)
(* CreatePasswordReset and ResetPasswordWithToken, called by concurrent    *)
(* requests. The token of a row stands for its SHA-256 hash too (the hash   *)
(* is taken to be free of collisions).                                     *)
(***************************************************************************)
MaxTokens == 2        \* rows CreatePasswordReset inserts in SpecReset

MaxResetCalls == 3    \* calls of ResetPasswordWithToken in SpecReset

\* the tokens rand.Read gives to the rows, in the order of their creation
Tokens == <<"t1", "t2", "t3">>

\* the tokens of the requests: the empty one, and those of the rows that may exist
RequestTokens == {""} \cup {Tokens[i] : i \in 1..MaxTokens}

\* the passwords of the requests: blank, accepted, or refused by bcrypt (over 72 bytes)
TooLong == "73 bytes"

ResetPasswords == {" ", "p1", "p2", TooLong}

IdleCall == [pc |-> "idle", token |-> "", password |-> "", id |-> 0]

\* wins: the calls with the row's token that returned nil; changes: the
\* password updates made with it
NewReset(token) ==
    [token |-> token, used |-> FALSE, expired |-> FALSE, wins |-> 0, changes |-> 0]

InitReset ==
    /\ queue = <<>>
    /\ recipes = <<>>
    /\ handlers = [h \in 1..MaxHandlers |-> IdleHandler]
    /\ sched = "batch"
    /\ batch = <<>>
    /\ next = 1
    /\ slots = 0
    /\ wg = 0
    /\ workers = {}
    /\ tick = "noticker"
    /\ cancelled = FALSE
    /\ enqResult = Returned("none", FALSE)
    /\ recipeCache = {}
    /\ recipesCache = {}
    /\ favorites = {}
    /\ reader = IdleReader
    /\ writer = IdleWriter
    /\ amount = Idle
    /\ text = Idle
    /\ parsed = Idle
    /\ candidate = Idle
    /\ complete = Idle
    /\ mem = Idle
    /\ entry = Idle
    /\ served = Idle
    /\ nav = Idle
    /\ main = Idle
    /\ auth = [pc |-> "serving", password |-> "p0", resets |-> <<>>, creator |-> "idle",
               calls |-> [c \in 1..MaxHandlers |-> IdleCall], started |-> 0,
               last |-> [caller |-> 0, err |-> "none"]]

ResetFrame == UNCHANGED <<progVars, main, amount, text, parsed, candidate, complete, mem,
                          entry, served, nav>>

\* CreatePasswordReset, its first UPDATE: SET used_at WHERE user_id = ? AND
\* used_at IS NULL
CreateInvalidate ==
    /\ auth # Idle
    /\ auth.creator = "idle"
    /\ Len(auth.resets) < MaxTokens
    /\ auth' = [auth EXCEPT !.creator = "insert",
                            !.resets = [i \in 1..Len(@) |-> [@[i] EXCEPT !.used = TRUE]]]
    /\ ResetFrame

\* CreatePasswordReset, its INSERT of the row of the new token
CreateInsert ==
    /\ auth # Idle
    /\ auth.creator = "insert"
    /\ auth' = [auth EXCEPT !.creator = "idle",
                            !.resets = Append(@, NewReset(Tokens[Len(@) + 1]))]
    /\ ResetFrame

\* time passes the expires_at of a row
ExpireReset ==
    /\ auth # Idle
    /\ \E i \in 1..Len(auth.resets) :
          /\ ~auth.resets[i].expired
          /\ auth' = [auth EXCEPT !.resets[i].expired = TRUE]
    /\ ResetFrame

\* WHERE token_hash = ? AND used_at IS NULL AND expires_at > now
ValidResets(a, token) ==
    {i \in 1..Len(a.resets) :
        a.resets[i].token = token /\ ~a.resets[i].used /\ ~a.resets[i].expired}

ResetReturn(a, c, err) ==
    [a EXCEPT !.calls[c] = IdleCall, !.last = [caller |-> c, err |-> err]]

\* ResetPasswordWithToken up to its lookup of the token
ResetLookup(c, token, newPassword) ==
    /\ auth # Idle
    /\ auth.calls[c].pc = "idle"
    /\ auth.started < MaxResetCalls
    /\ LET a == [auth EXCEPT !.started = @ + 1]
           found == ValidResets(auth, token)
       IN auth' =
            IF Blank(token) \/ Blank(newPassword)
            THEN ResetReturn(a, c, "token and password are required")
            ELSE IF found = {} THEN ResetReturn(a, c, "invalid or expired token")
            ELSE [a EXCEPT !.calls[c] = [pc |-> "update", token |-> token,
                                         password |-> newPassword,
                                         id |-> CHOOSE i \in found : TRUE]]
    /\ ResetFrame

\* updateUserPassword(reset.UserID, newPassword)
ResetUpdatePassword(c) ==
    /\ auth # Idle
    /\ auth.calls[c].pc = "update"
    /\ auth' = IF auth.calls[c].password = TooLong
               THEN ResetReturn(auth, c, "hash password")
               ELSE [auth EXCEPT !.password = auth.calls[c].password,
                                 !.resets[auth.calls[c].id].changes = @ + 1,
                                 !.calls[c].pc = "mark"]
    /\ ResetFrame

\* UPDATE password_resets SET used_at = now WHERE id = ?; return nil
ResetMarkUsed(c) ==
    /\ auth # Idle
    /\ auth.calls[c].pc = "mark"
    /\ auth' = ResetReturn([auth EXCEPT !.resets[auth.calls[c].id].used = TRUE,
                                        !.resets[auth.calls[c].id].wins = @ + 1],
                           c, "nil")
    /\ ResetFrame

NextReset ==
    \/ CreateInvalidate
    \/ CreateInsert
    \/ ExpireReset
    \/ \E c \in 1..MaxHandlers, token \in RequestTokens, newPassword \in ResetPasswords :
          ResetLookup(c, token, newPassword)
    \/ \E c \in 1..MaxHandlers : ResetUpdatePassword(c)
    \/ \E c \in 1..MaxHandlers : ResetMarkUsed(c)

SpecReset == InitReset /\ [][NextReset]_vars

\* C38 as claimed: a password-reset token changes a password at most once.
\* Of the calls of ResetPasswordWithToken with one token, concurrent calls
\* included, at most one returns nil and at most one updates the password; and
\* a call made with a token after a call with it has returned nil does not
\* pass the lookup (it returns the invalid-or-expired error before any update
\* of the password).
TokenChangesPasswordOnce ==
    /\ [](auth # Idle =>
            \A i \in 1..Len(auth.resets) :
                auth.resets[i].wins <= 1 /\ auth.resets[i].changes <= 1)
    /\ [][auth # Idle =>
            \A c \in 1..MaxHandlers :
                (auth.calls[c].pc = "idle" /\ auth'.calls[c].pc = "update")
                    => auth.resets[auth'.calls[c].id].wins = 0]_vars

====
